---- MODULE Spec2Model ----
(***************************************************************************)
(* A model of django_redis.client.default.DefaultClient: replica selection *)
(* and the write retry loop, the value codec, TTL normalisation, TTL       *)
(* queries and the counter operations, against a Redis-like store.         *)
(***************************************************************************)
EXTENDS Integers, Sequences, FiniteSets, TLC

\* ------------------------------------------------------------------ bounds
MaxServers == 3
MaxTried == 3
MaxInt == 12
MaxStrLen == 2
MinLength == 1

\* ------------------------------------------------------------ python values
\* Python values are tagged records, so that 1 and True stay different values.
PyNone == [t |-> "none"]
PyInt(i) == [t |-> "int", i |-> i]
PyBool(b) == [t |-> "bool", b |-> b]
PyStr(s) == [t |-> "str", s |-> s]
PyBytes(s) == [t |-> "bytes", s |-> s]

PyList(items) == [t |-> "list", items |-> items]

\* An OrderedDict, as the sequence of its items <<key, value>>.
PyDict(items) == [t |-> "dict", items |-> items]

Range(s) == {s[i] : i \in 1..Len(s)}

\* ------------------------------------------------------------ integer text
Digits == <<"0", "1", "2", "3", "4", "5", "6", "7", "8", "9">>

IsDigit(c) == \E d \in 1..10 : Digits[d] = c

DigitVal(c) == CHOOSE d \in 0..9 : Digits[d + 1] = c

RECURSIVE NatToText(_)
NatToText(n) ==
    IF n < 10 THEN <<Digits[n + 1]>>
    ELSE NatToText(n \div 10) \o <<Digits[(n % 10) + 1]>>

\* The decimal text redis-py sends for an int argument, which is also the text
\* Redis keeps for it.
IntToText(n) == IF n < 0 THEN <<"-">> \o NatToText(-n) ELSE NatToText(n)

RECURSIVE TextToNat(_)
TextToNat(s) ==
    IF Len(s) = 0 THEN 0
    ELSE 10 * TextToNat(SubSeq(s, 1, Len(s) - 1)) + DigitVal(s[Len(s)])

AllDigits(s) == Len(s) > 0 /\ \A i \in 1..Len(s) : IsDigit(s[i])

\* Python's int(bytes): an optional sign and at least one digit.
\* [ok |-> FALSE] stands for ValueError.
ParseInt(s) ==
    IF AllDigits(s) THEN [ok |-> TRUE, i |-> TextToNat(s)]
    ELSE IF Len(s) > 1 /\ s[1] = "-" /\ AllDigits(Tail(s))
         THEN [ok |-> TRUE, i |-> 0 - TextToNat(Tail(s))]
    ELSE IF Len(s) > 1 /\ s[1] = "+" /\ AllDigits(Tail(s))
         THEN [ok |-> TRUE, i |-> TextToNat(Tail(s))]
    ELSE [ok |-> FALSE, i |-> 0]

\* ------------------------------------------------------------ python numbers
\* A timeout is a Python number m * 1000^e: e < 0 for a float given in
\* thousandths (e = -1) or millionths (e = -2) of a second, e >= 0 for an int.
\* The exponent keeps timeout * 1000 exact however often it is applied.
Num(m, e) == [t |-> "num", m |-> m, e |-> e]

MsPerSec == 1000

RECURSIVE Pow1000(_)
Pow1000(n) == IF n = 0 THEN 1 ELSE MsPerSec * Pow1000(n - 1)

\* Division that truncates toward zero, as Python's int() does.
TruncDiv(a, b) == IF a >= 0 THEN a \div b ELSE 0 - ((0 - a) \div b)

Mul1000(x) == [x EXCEPT !.e = @ + 1]

PyIntOf(x) ==
    IF x.e >= 0 THEN x ELSE Num(TruncDiv(x.m, Pow1000(0 - x.e)), 0)

\* ------------------------------------------------------------------- keys
KeyPrefix == "p"
DefaultVersion == 1
NoVersion == 0
LKeys == {"k1", "k2"}
Versions == {DefaultVersion}

\* The backend's key_func composes prefix, version and key; the composed key is
\* kept as the triple.
key_func(key, prefix, version) == <<prefix, version, key>>

NKeys == {key_func(k, KeyPrefix, v) : k \in LKeys, v \in Versions}

PlainKey(k) == [ck |-> FALSE, k |-> k]
CacheKey(s) == [ck |-> TRUE, k |-> s]

make_key(key, version) ==
    IF key.ck THEN key
    ELSE CacheKey(key_func(key.k, KeyPrefix,
                           IF version = NoVersion THEN DefaultVersion ELSE version))

\* ------------------------------------------------------------------ store
\* One dataset per server: each namespaced key maps to its bytes and its
\* remaining life in milliseconds; exp is -1 for a key without expiration and
\* -2 for a key that does not exist (the replies of PTTL).
TickMs == 500
HorizonMs == 2000
FarMs == HorizonMs + TickMs
Int64Max == 6

Absent == [val |-> <<>>, exp |-> -2]

NoPx == -1

Exists(d, k) == d[k] # Absent

\* SET key value [NX] [PX px] [XX]
RedisSET(d, k, val, nx, px, xx) ==
    IF (nx /\ Exists(d, k)) \/ (xx /\ ~Exists(d, k))
    THEN [d |-> d, r |-> FALSE]
    ELSE [d |-> [d EXCEPT ![k] = [val |-> val, exp |-> px]], r |-> TRUE]

RedisDEL(d, k) ==
    [d |-> [d EXCEPT ![k] = Absent], r |-> IF Exists(d, k) THEN 1 ELSE 0]

RedisEXISTS(d, k) == IF Exists(d, k) THEN 1 ELSE 0

RedisPTTL(d, k) == d[k].exp

\* TTL rounds the remaining milliseconds to the nearest second.
RedisTTL(d, k) ==
    IF d[k].exp < 0 THEN d[k].exp ELSE (d[k].exp + (MsPerSec \div 2)) \div MsPerSec

\* The integer Redis reads in a stored string: canonical decimal text within
\* the signed 64-bit range (scaled to Int64Max).
RedisInt(val) ==
    LET p == ParseInt(val)
    IN  IF p.ok /\ IntToText(p.i) = val /\ p.i <= Int64Max /\ p.i >= 0 - Int64Max - 1
        THEN p ELSE [ok |-> FALSE, i |-> 0]

\* INCRBY key delta: r is the new value; ok = FALSE is the ResponseError for a
\* value that is no integer or a sum that overflows.
RedisINCRBY(d, k, delta) ==
    LET cur == IF Exists(d, k) THEN RedisInt(d[k].val) ELSE [ok |-> TRUE, i |-> 0]
        sum == cur.i + delta
    IN  IF cur.ok /\ sum <= Int64Max /\ sum >= 0 - Int64Max - 1
        THEN [ok |-> TRUE, r |-> sum,
              d |-> [d EXCEPT ![k] = [val |-> IntToText(sum),
                                      exp |-> IF Exists(d, k) THEN d[k].exp ELSE -1]]]
        ELSE [ok |-> FALSE, r |-> 0, d |-> d]

\* The millisecond expiry the store keeps for PX px: exact within the horizon,
\* and FarMs for any expiry beyond it.
WirePx(x) ==
    LET ms == IF x.e = 0 THEN x.m
              ELSE IF x.e = 1 THEN x.m * MsPerSec
              ELSE FarMs
    IN  IF ms <= HorizonMs THEN ms ELSE FarMs

\* -------------------------------------------------------------- state
NumProcs == 3
Procs == 1..NumProcs

VARIABLES
    nServers,           \* len(self._server)
    replica_read_only,  \* self._replica_read_only
    compressor,         \* which compressor self._compressor is
    clients,            \* self._clients
    store,              \* the servers' datasets
    store0,             \* history: the datasets when the run began
    frame,              \* each caller's running call
    sel,                \* one call of get_next_client_index
    codec,              \* one value taken through encode, the store and decode
    factory             \* self.connection_factory: handles made and released

config == <<nServers, replica_read_only, compressor>>
pure == <<sel, codec, factory>>
vars == <<nServers, replica_read_only, compressor, clients, store, store0, frame,
          sel, codec, factory>>

\* ------------------------------------------------------------ collaborators
\* Serializer: a plain-text serializer. A string is written as its own
\* characters, a boolean as T or F.
dumps(v) ==
    IF v.t = "bool" THEN (IF v.b THEN <<"T">> ELSE <<"F">>) ELSE v.s

loads(b) ==
    IF b = <<"T">> THEN PyBool(TRUE)
    ELSE IF b = <<"F">> THEN PyBool(FALSE)
    ELSE PyStr(b)

\* Compressor: the identity compressor, or one that compresses only values
\* longer than MinLength and marks what it compressed.
compress(b) ==
    IF compressor = "zlib" /\ Len(b) > MinLength THEN <<"z">> \o b ELSE b

\* [ok |-> FALSE] stands for CompressorError.
decompress(b) ==
    IF compressor = "identity" THEN [ok |-> TRUE, b |-> b]
    ELSE IF Len(b) > 0 /\ b[1] = "z" THEN [ok |-> TRUE, b |-> Tail(b)]
    ELSE [ok |-> FALSE, b |-> b]

\* ------------------------------------------------------------------ codec
encode_boolAsInt(value) ==
    IF value.t \in {"bool", "int"}
    THEN (IF value.t = "int" THEN value
          ELSE PyInt(IF value.b THEN 1 ELSE 0))
    ELSE PyBytes(compress(dumps(value)))

encode(value) ==
    IF value.t = "bool" \/ value.t # "int"
    THEN PyBytes(compress(dumps(value)))
    ELSE value

\* What redis-py puts on the wire for an encoded value, and so what the store
\* keeps and returns.
WireBytes(nvalue) == IF nvalue.t = "int" THEN IntToText(nvalue.i) ELSE nvalue.s

decode(value) ==
    LET asInt == ParseInt(value)
        dec == decompress(value)
    IN  IF asInt.ok THEN PyInt(asInt.i)
        ELSE loads(IF dec.ok THEN dec.b ELSE value)

\* --------------------------------------------------------- replica selector
\* The set of indices get_next_client_index may return: random.choice and
\* random.randint are a free choice among their candidates.
get_next_client_index_offByOne(write, tried) ==
    IF tried # <<>> /\ Len(tried) <= nServers
    THEN {i \in 0..(nServers - 1) : i \notin Range(tried)}
    ELSE IF write \/ nServers = 1 THEN {0}
    ELSE 1..(nServers - 1)

get_next_client_index(write, tried) ==
    IF tried # <<>> /\ Len(tried) < nServers
    THEN {i \in 0..(nServers - 1) : i \notin Range(tried)}
    ELSE IF write \/ nServers = 1 THEN {0}
    ELSE 1..(nServers - 1)

\* ------------------------------------------------------- tuples of a bound
RECURSIVE SeqsUpTo(_, _)
SeqsUpTo(S, n) ==
    IF n = 0 THEN {<<>>}
    ELSE LET shorter == SeqsUpTo(S, n - 1)
         IN  shorter \cup {Append(s, x) : s \in shorter, x \in S}

\* ------------------------------------------------------------ connections
\* A connection handle names its server; NoClient is None.
NoClient == [server |-> -1, id |-> 0]

connect(index) == [server |-> index, id |-> 1]

\* A handle the caller made and passes as client=.
GivenClient(server) == [server |-> server, id |-> 0]

\* The connection factory's ledger: the handles connect returned and the
\* handles disconnect was given.
NoFactory == [made |-> {}, released |-> {}]

\* get_client's effect on self._clients for the chosen index.
get_client(index) ==
    IF clients[index] = NoClient
    THEN [clients EXCEPT ![index] = connect(index)]
    ELSE clients

\* ------------------------------------------------------------------ calls
NoRet == [kind |-> "none", v |-> PyNone, exc |-> ""]
Return(v) == [kind |-> "return", v |-> v, exc |-> ""]
Raise(e) == [kind |-> "raise", v |-> PyNone, exc |-> e]

DEFAULT_TIMEOUT == [t |-> "default"]
default_timeout == Num(2, 0)

IdleFrame ==
    [op |-> "none", pc |-> "idle", key |-> PlainKey("k1"), version |-> NoVersion,
     value |-> PyNone, nvalue |-> PyNone, timeout |-> PyNone, resolved |-> PyNone,
     nx |-> FALSE, xx |-> FALSE, delta |-> 0, ignore |-> FALSE, millis |-> FALSE,
     given |-> NoClient, client |-> NoClient, index |-> -1, tried |-> <<>>,
     attempts |-> <<>>, failures |-> 0, fallback |-> FALSE, ret |-> NoRet,
     keys |-> <<>>, data |-> <<>>,
     search |-> <<>>, prefix |-> <<>>, pattern |-> <<>>, cursor |-> "none",
     batch |-> {}, must |-> {}, scans |-> 0, count |-> 0, removed |-> 0,
     found |-> <<>>,
     values |-> <<>>, desc |-> FALSE, start |-> 0, stop |-> -1, at |-> 0]

CanCall(p) == frame[p].pc \in {"idle", "done"}

\* -------------------------------------------------------------------- set
\* has_key's and delete's command, as set calls them with its own client.
has_key(d, key, version) == RedisEXISTS(d, make_key(key, version).k) = 1

delete(d, key, version) == RedisDEL(d, make_key(key, version).k)

\* timeout = int(timeout * 1000), for a timeout that is not None.
set_millis(timeout) ==
    IF timeout = PyNone THEN PyNone ELSE PyIntOf(Mul1000(timeout))

\* Which command one pass of set's loop issues for the converted timeout.
set_branch_ignoresNx(timeout, nx) ==
    IF timeout # PyNone /\ timeout.m <= 0 THEN "delete" ELSE "set"

set_branch(timeout, nx) ==
    IF timeout # PyNone /\ timeout.m <= 0
    THEN (IF nx THEN "has_key" ELSE "delete")
    ELSE "set"

\* The command of one pass of set's loop, once it is accepted: the dataset
\* afterwards and the value set returns.
set_command_expireAfterWrite(d, key, version, nvalue, timeout, nx, xx) ==
    LET nkey == make_key(key, version).k
        wrote == RedisSET(d, nkey, WireBytes(nvalue), nx, NoPx, xx)
    IN  IF set_branch(timeout, nx) = "set"
        THEN RedisSET(d, nkey, WireBytes(nvalue), nx,
                      IF timeout = PyNone THEN NoPx ELSE WirePx(timeout), xx)
        ELSE [d |-> RedisDEL(wrote.d, nkey).d, r |-> wrote.r]

\* The command of set sent without its nx flag.
set_command_dropsNx(d, key, version, nvalue, timeout, nx, xx) ==
    LET nkey == make_key(key, version).k
        branch == set_branch(timeout, nx)
    IN  IF branch = "has_key"
        THEN [d |-> d, r |-> ~has_key(d, key, version)]
        ELSE IF branch = "delete"
        THEN [d |-> delete(d, key, version).d, r |-> delete(d, key, version).r # 0]
        ELSE RedisSET(d, nkey, WireBytes(nvalue), FALSE,
                      IF timeout = PyNone THEN NoPx ELSE WirePx(timeout), xx)

set_command(d, key, version, nvalue, timeout, nx, xx) ==
    LET nkey == make_key(key, version).k
        branch == set_branch(timeout, nx)
    IN  IF branch = "has_key"
        THEN [d |-> d, r |-> ~has_key(d, key, version)]
        ELSE IF branch = "delete"
        THEN [d |-> delete(d, key, version).d, r |-> delete(d, key, version).r # 0]
        ELSE RedisSET(d, nkey, WireBytes(nvalue), nx,
                      IF timeout = PyNone THEN NoPx ELSE WirePx(timeout), xx)

\* The except clause of set's loop: retry on another index, or raise.
set_should_retry_unbounded(original_client, tried) ==
    /\ original_client = NoClient
    /\ ~replica_read_only

set_should_retry(original_client, tried) ==
    /\ original_client = NoClient
    /\ ~replica_read_only
    /\ Len(tried) < nServers

CallSet(p, key, value, timeout, version, client, nx, xx) ==
    /\ CanCall(p)
    /\ frame' = [frame EXCEPT ![p] =
          [IdleFrame EXCEPT !.op = "set", !.pc = "set_loop", !.key = key,
                            !.version = version, !.value = value,
                            !.nvalue = encode(value),
                            !.timeout = IF timeout = DEFAULT_TIMEOUT
                                        THEN default_timeout ELSE timeout,
                            !.resolved = IF timeout = DEFAULT_TIMEOUT
                                         THEN default_timeout ELSE timeout,
                            !.nx = nx, !.xx = xx,
                            !.given = client, !.client = client]]
    /\ UNCHANGED <<config, clients, store, store0, pure>>

\* The indices one pass of set's loop may run on.
SetIndexChoices(f) ==
    IF f.client = NoClient THEN get_next_client_index(TRUE, f.tried) ELSE {f.index}

\* One pass of set's loop whose command the server accepts.
SetAttemptOk(p) ==
    LET f == frame[p]
    IN  /\ f.pc = "set_loop"
        /\ \E idx \in SetIndexChoices(f) :
              LET slots == IF f.client = NoClient THEN get_client(idx) ELSE clients
                  client == IF f.client = NoClient THEN slots[idx] ELSE f.client
                  timeout == set_millis(f.timeout)
                  out == set_command(store[client.server], f.key, f.version,
                                     f.nvalue, timeout, f.nx, f.xx)
              IN  /\ clients' = slots
                  /\ store' = [store EXCEPT ![client.server] = out.d]
                  /\ frame' = [frame EXCEPT ![p] =
                        [f EXCEPT !.pc = "done", !.client = client, !.index = idx,
                                  !.timeout = timeout,
                                  !.attempts = Append(@, client.server),
                                  !.ret = Return(PyBool(out.r))]]
        /\ UNCHANGED <<config, store0, pure>>

\* One pass of set's loop whose command fails with a transport-class error.
SetAttemptFail(p) ==
    LET f == frame[p]
    IN  /\ f.pc = "set_loop"
        /\ \E idx \in SetIndexChoices(f) :
              LET slots == IF f.client = NoClient THEN get_client(idx) ELSE clients
                  client == IF f.client = NoClient THEN slots[idx] ELSE f.client
                  timeout == set_millis(f.timeout)
                  retry == /\ set_branch(timeout, f.nx) = "set"
                           /\ set_should_retry(f.given, f.tried)
              IN  /\ clients' = slots
                  /\ frame' = [frame EXCEPT ![p] =
                        [f EXCEPT !.pc = IF retry THEN "set_loop" ELSE "done",
                                  !.client = IF retry THEN NoClient ELSE client,
                                  !.index = idx,
                                  !.timeout = timeout,
                                  !.tried = IF retry THEN Append(@, idx) ELSE @,
                                  !.attempts = Append(@, client.server),
                                  !.failures = @ + 1,
                                  !.ret = IF retry THEN NoRet
                                          ELSE Raise("ConnectionInterrupted")]]
        /\ UNCHANGED <<config, store, store0, pure>>

\* ------------------------------------------------- the other operations
\* The indices an operation other than set may run on: the caller's client, or
\* get_client(write) with no tried list.
IndexChoices(f, write) ==
    IF f.given = NoClient THEN get_next_client_index(write, <<>>)
    ELSE {f.given.server}

SlotsFor(f, idx) == IF f.given = NoClient THEN get_client(idx) ELSE clients

ClientFor(f, idx) == IF f.given = NoClient THEN SlotsFor(f, idx)[idx] ELSE f.given

StartPc(op) ==
    IF op \in {"ttl", "pttl"} THEN "ttl_exists"
    ELSE IF op = "delete" THEN "delete_cmd"
    ELSE IF op = "get" THEN "get_cmd"
    ELSE "has_key_cmd"

\* A call of delete, get, has_key, ttl or pttl.
CallKeyOp(p, op, key, version, client) ==
    /\ CanCall(p)
    /\ frame' = [frame EXCEPT ![p] =
          [IdleFrame EXCEPT !.op = op, !.pc = StartPc(op), !.key = key,
                            !.version = version, !.millis = (op = "pttl"),
                            !.given = client, !.client = client]]
    /\ UNCHANGED <<config, clients, store, store0, pure>>

\* delete: DEL on the write connection.
DeleteCmd(p) ==
    LET f == frame[p]
    IN  /\ f.pc = "delete_cmd"
        /\ \E idx \in IndexChoices(f, TRUE) :
              LET client == ClientFor(f, idx)
                  out == delete(store[client.server], f.key, f.version)
              IN  /\ clients' = SlotsFor(f, idx)
                  /\ store' = [store EXCEPT ![client.server] = out.d]
                  /\ frame' = [frame EXCEPT ![p] =
                        [f EXCEPT !.pc = "done", !.client = client,
                                  !.ret = Return(PyInt(out.r))]]
        /\ UNCHANGED <<config, store0, pure>>

\* get's result for what GET replied: the default (None) for a missing key.
get_result(d, nkey) ==
    IF Exists(d, nkey) THEN decode(d[nkey].val) ELSE PyNone

\* get: GET on a read connection, then decode.
GetCmd(p) ==
    LET f == frame[p]
    IN  /\ f.pc = "get_cmd"
        /\ \E idx \in IndexChoices(f, FALSE) :
              LET client == ClientFor(f, idx)
                  nkey == make_key(f.key, f.version).k
              IN  /\ clients' = SlotsFor(f, idx)
                  /\ frame' = [frame EXCEPT ![p] =
                        [f EXCEPT !.pc = "done", !.client = client,
                                  !.ret = Return(get_result(store[client.server], nkey))]]
        /\ UNCHANGED <<config, store, store0, pure>>

\* has_key: EXISTS on a read connection.
HasKeyCmd(p) ==
    LET f == frame[p]
    IN  /\ f.pc = "has_key_cmd"
        /\ \E idx \in IndexChoices(f, FALSE) :
              LET client == ClientFor(f, idx)
              IN  /\ clients' = SlotsFor(f, idx)
                  /\ frame' = [frame EXCEPT ![p] =
                        [f EXCEPT !.pc = "done", !.client = client,
                                  !.ret = Return(PyBool(
                                      has_key(store[client.server], f.key, f.version)))]]
        /\ UNCHANGED <<config, store, store0, pure>>

\* What ttl and pttl return for the store's reply t.
ttl_result_rawReply(t) == PyInt(t)

ttl_result(t) ==
    IF t >= 0 THEN PyInt(t)
    ELSE IF t = -1 THEN PyNone
    ELSE IF t = -2 THEN PyInt(0)
    ELSE PyNone

\* ttl and pttl, first command: EXISTS on a read connection.
TtlExists(p) ==
    LET f == frame[p]
    IN  /\ f.pc = "ttl_exists"
        /\ \E idx \in IndexChoices(f, FALSE) :
              LET client == ClientFor(f, idx)
                  nkey == make_key(f.key, f.version).k
                  found == RedisEXISTS(store[client.server], nkey) # 0
              IN  /\ clients' = SlotsFor(f, idx)
                  /\ frame' = [frame EXCEPT ![p] =
                        [f EXCEPT !.pc = IF found THEN "ttl_query" ELSE "done",
                                  !.client = client,
                                  !.attempts = Append(@, client.server),
                                  !.ret = IF found THEN NoRet ELSE Return(PyInt(0))]]
        /\ UNCHANGED <<config, store, store0, pure>>

\* ttl and pttl, second command: TTL or PTTL on the same connection.
TtlQuery(p) ==
    LET f == frame[p]
        nkey == make_key(f.key, f.version).k
        d == store[f.client.server]
        t == IF f.millis THEN RedisPTTL(d, nkey) ELSE RedisTTL(d, nkey)
    IN  /\ f.pc = "ttl_query"
        /\ frame' = [frame EXCEPT ![p] =
              [f EXCEPT !.pc = "done", !.attempts = Append(@, f.client.server),
                        !.ret = Return(ttl_result(t))]]
        /\ UNCHANGED <<config, clients, store, store0, pure>>

\* ------------------------------------------------------------ incr, decr
\* The script _incr evaluates. nil: the script returned false (key absent);
\* ok = FALSE: INCRBY raised ResponseError.
incr_script_noExistsCheck(d, nkey, delta, ignore_key_check) ==
    LET out == RedisINCRBY(d, nkey, delta)
    IN  [ok |-> out.ok, nil |-> FALSE, r |-> out.r, d |-> out.d]

\* The script calling INCR where it should call INCRBY.
incr_script_ignoresDelta(d, nkey, delta, ignore_key_check) ==
    IF ~ignore_key_check /\ RedisEXISTS(d, nkey) # 1
    THEN [ok |-> TRUE, nil |-> TRUE, r |-> 0, d |-> d]
    ELSE LET out == RedisINCRBY(d, nkey, 1)
         IN  [ok |-> out.ok, nil |-> FALSE, r |-> out.r, d |-> out.d]

incr_script(d, nkey, delta, ignore_key_check) ==
    IF ~ignore_key_check /\ RedisEXISTS(d, nkey) # 1
    THEN [ok |-> TRUE, nil |-> TRUE, r |-> 0, d |-> d]
    ELSE LET out == RedisINCRBY(d, nkey, delta)
         IN  [ok |-> out.ok, nil |-> FALSE, r |-> out.r, d |-> out.d]

\* A call of incr (delta) or decr (-delta, never ignoring the key check).
CallIncr(p, op, key, delta, version, client, ignore_key_check) ==
    /\ CanCall(p)
    /\ frame' = [frame EXCEPT ![p] =
          [IdleFrame EXCEPT !.op = op, !.pc = "incr_eval", !.key = key,
                            !.version = version,
                            !.delta = IF op = "decr" THEN 0 - delta ELSE delta,
                            !.ignore = (op = "incr" /\ ignore_key_check),
                            !.given = client, !.client = client]]
    /\ UNCHANGED <<config, clients, store, store0, pure>>

\* _incr: the script on the write connection.
IncrEval(p) ==
    LET f == frame[p]
    IN  /\ f.pc = "incr_eval"
        /\ \E idx \in IndexChoices(f, TRUE) :
              LET client == ClientFor(f, idx)
                  key == make_key(f.key, f.version)
                  out == incr_script(store[client.server], key.k, f.delta, f.ignore)
              IN  /\ clients' = SlotsFor(f, idx)
                  /\ store' = [store EXCEPT ![client.server] = out.d]
                  /\ frame' = [frame EXCEPT ![p] =
                        [f EXCEPT !.client = client, !.key = key,
                                  !.pc = IF out.ok THEN "done" ELSE "fb_exists",
                                  !.fallback = ~out.ok,
                                  !.ret = IF ~out.ok THEN NoRet
                                          ELSE IF out.nil THEN Raise("ValueError")
                                          ELSE Return(PyInt(out.r))]]
        /\ UNCHANGED <<config, store0, pure>>

\* The fallback's self.ttl(key), first command: a missing key gives timeout 0.
FbExists(p) ==
    LET f == frame[p]
        found == RedisEXISTS(store[f.client.server], f.key.k) # 0
    IN  /\ f.pc = "fb_exists"
        /\ frame' = [frame EXCEPT ![p] =
              [f EXCEPT !.pc = IF found THEN "fb_ttl" ELSE "fb_get",
                        !.timeout = IF found THEN @ ELSE PyInt(0)]]
        /\ UNCHANGED <<config, clients, store, store0, pure>>

\* The fallback's self.ttl(key), second command, and the check for -2.
FbTtl(p) ==
    LET f == frame[p]
        timeout == ttl_result(RedisTTL(store[f.client.server], f.key.k))
        missing == timeout = PyInt(-2)
    IN  /\ f.pc = "fb_ttl"
        /\ frame' = [frame EXCEPT ![p] =
              [f EXCEPT !.pc = IF missing THEN "done" ELSE "fb_get",
                        !.timeout = timeout,
                        !.ret = IF missing THEN Raise("ValueError") ELSE NoRet]]
        /\ UNCHANGED <<config, clients, store, store0, pure>>

\* value = self.get(key) + delta: None and str raise TypeError, a bool counts
\* as 0 or 1.
incr_sum(got, delta) ==
    IF got.t = "int" THEN [ok |-> TRUE, v |-> PyInt(got.i + delta)]
    ELSE IF got.t = "bool" THEN [ok |-> TRUE, v |-> PyInt((IF got.b THEN 1 ELSE 0) + delta)]
    ELSE [ok |-> FALSE, v |-> PyNone]

\* The fallback's self.get(key) + delta. A missing key reached here with
\* timeout 0, which is not -2.
FbGet(p) ==
    LET f == frame[p]
        missing == f.timeout = PyInt(-2)
        sum == incr_sum(get_result(store[f.client.server], f.key.k), f.delta)
    IN  /\ f.pc = "fb_get"
        /\ frame' = [frame EXCEPT ![p] =
              [f EXCEPT !.pc = IF missing \/ ~sum.ok THEN "done" ELSE "fb_set",
                        !.value = sum.v,
                        !.ret = IF missing THEN Raise("ValueError")
                                ELSE IF ~sum.ok THEN Raise("TypeError")
                                ELSE NoRet]]
        /\ UNCHANGED <<config, clients, store, store0, pure>>

\* The fallback's self.set(key, value, timeout=timeout, client=client).
FbSet(p) ==
    LET f == frame[p]
        timeout == set_millis(IF f.timeout = PyNone THEN PyNone
                              ELSE Num(f.timeout.i, 0))
        out == set_command(store[f.client.server], f.key, f.version,
                           encode(f.value), timeout, FALSE, FALSE)
    IN  /\ f.pc = "fb_set"
        /\ store' = [store EXCEPT ![f.client.server] = out.d]
        /\ frame' = [frame EXCEPT ![p] =
              [f EXCEPT !.pc = "done", !.ret = Return(f.value)]]
        /\ UNCHANGED <<config, clients, store0, pure>>

\* ------------------------------------------------------ get_many, set_many
MaxKeys == 3

\* MGET: for each key its bytes, or nil.
RedisMGET(d, nkeys) ==
    [i \in 1..Len(nkeys) |->
        IF Exists(d, nkeys[i]) THEN [nil |-> FALSE, val |-> d[nkeys[i]].val]
        ELSE [nil |-> TRUE, val |-> <<>>]]

\* OrderedDict((self.make_key(k), k) for k in keys): a key met again keeps
\* its place and takes the later logical key.
RECURSIVE map_keys(_, _)
map_keys(keys, version) ==
    IF keys = <<>> THEN <<>>
    ELSE LET front == map_keys(SubSeq(keys, 1, Len(keys) - 1), version)
             k == keys[Len(keys)]
             nkey == make_key(PlainKey(k), version).k
         IN  IF \E i \in 1..Len(front) : front[i][1] = nkey
             THEN [i \in 1..Len(front) |->
                      IF front[i][1] = nkey THEN <<nkey, k>> ELSE front[i]]
             ELSE Append(front, <<nkey, k>>)

\* The loop over zip(map_keys, results), from item i on.
RECURSIVE recovered_data(_, _, _)
recovered_data(mk, results, i) ==
    IF i > Len(mk) THEN <<>>
    ELSE IF results[i].nil THEN recovered_data(mk, results, i + 1)
    ELSE <<<<mk[i][2], decode(results[i].val)>>>> \o recovered_data(mk, results, i + 1)

\* get_many that keeps a missing key with the value None.
RECURSIVE recovered_data_keepsMissing(_, _, _)
recovered_data_keepsMissing(mk, results, i) ==
    IF i > Len(mk) THEN <<>>
    ELSE <<<<mk[i][2], IF results[i].nil THEN PyNone ELSE decode(results[i].val)>>>>
         \o recovered_data_keepsMissing(mk, results, i + 1)

get_many_result_keepsMissing(d, keys, version) ==
    IF keys = <<>> THEN PyDict(<<>>)
    ELSE LET mk == map_keys(keys, version)
             results == RedisMGET(d, [i \in 1..Len(mk) |-> mk[i][1]])
         IN  PyDict(recovered_data_keepsMissing(mk, results, 1))

\* What get_many returns on dataset d.
get_many_result(d, keys, version) ==
    IF keys = <<>> THEN PyDict(<<>>)
    ELSE LET mk == map_keys(keys, version)
             results == RedisMGET(d, [i \in 1..Len(mk) |-> mk[i][1]])
         IN  PyDict(recovered_data(mk, results, 1))

\* The pipeline set_many executes: one set per item of data, in order, each
\* converting the timeout it was passed.
RECURSIVE set_many_exec(_, _, _, _)
set_many_exec(d, data, timeout, version) ==
    IF data = <<>> THEN d
    ELSE LET item == data[1]
             out == set_command(d, PlainKey(item[1]), version, encode(item[2]),
                                set_millis(timeout), FALSE, FALSE)
         IN  set_many_exec(out.d, Tail(data), timeout, version)

CallGetMany(p, keys, version, client) ==
    /\ CanCall(p)
    /\ frame' = [frame EXCEPT ![p] =
          [IdleFrame EXCEPT !.op = "get_many", !.pc = "get_many_cmd",
                            !.keys = keys, !.version = version,
                            !.given = client, !.client = client]]
    /\ UNCHANGED <<config, clients, store, store0, pure>>

\* get_many: MGET on a read connection, then decode what was found.
GetManyCmd(p) ==
    LET f == frame[p]
    IN  /\ f.pc = "get_many_cmd"
        /\ \E idx \in IndexChoices(f, FALSE) :
              LET client == ClientFor(f, idx)
              IN  /\ clients' = SlotsFor(f, idx)
                  /\ frame' = [frame EXCEPT ![p] =
                        [f EXCEPT !.pc = "done", !.client = client,
                                  !.ret = Return(get_many_result(
                                      store[client.server], f.keys, f.version))]]
        /\ UNCHANGED <<config, store, store0, pure>>

CallSetMany(p, data, timeout, version, client) ==
    /\ CanCall(p)
    /\ frame' = [frame EXCEPT ![p] =
          [IdleFrame EXCEPT !.op = "set_many", !.pc = "set_many_exec",
                            !.data = data, !.version = version,
                            !.timeout = IF timeout = DEFAULT_TIMEOUT
                                        THEN default_timeout ELSE timeout,
                            !.given = client, !.client = client]]
    /\ UNCHANGED <<config, clients, store, store0, pure>>

\* set_many: the pipeline's execute on the write connection.
SetManyExec(p) ==
    LET f == frame[p]
    IN  /\ f.pc = "set_many_exec"
        /\ \E idx \in IndexChoices(f, TRUE) :
              LET client == ClientFor(f, idx)
              IN  /\ clients' = SlotsFor(f, idx)
                  /\ store' = [store EXCEPT ![client.server] =
                        set_many_exec(@, f.data, f.timeout, f.version)]
                  /\ frame' = [frame EXCEPT ![p] =
                        [f EXCEPT !.pc = "done", !.client = client,
                                  !.ret = Return(PyNone)]]
        /\ UNCHANGED <<config, store0, pure>>

\* ----------------------------------------------------------------- patterns
\* Strings that meet a pattern are sequences of characters.
Special == {"*", "?", "["}

\* special_re.sub(r"[\1]", s)
RECURSIVE glob_escape(_)
glob_escape(s) ==
    IF s = <<>> THEN <<>>
    ELSE (IF s[1] \in Special THEN <<"[", s[1], "]">> ELSE <<s[1]>>)
         \o glob_escape(Tail(s))

\* The members of the bracket class whose body starts at p[i], and the index
\* after its closing bracket: a backslash takes the next character literally.
RECURSIVE ClassScan(_, _, _)
ClassScan(p, i, acc) ==
    IF i > Len(p) THEN [members |-> acc, next |-> i]
    ELSE IF p[i] = "\\" /\ i < Len(p) THEN ClassScan(p, i + 2, acc \cup {p[i + 1]})
    ELSE IF p[i] = "]" THEN [members |-> acc, next |-> i + 1]
    ELSE ClassScan(p, i + 1, acc \cup {p[i]})

\* The store's glob match of string s against pattern p: * any run, ? any
\* character, [..] a class ([^..] its complement), \c the character c.
RECURSIVE GlobMatch(_, _)
GlobMatch(p, s) ==
    IF p = <<>> THEN s = <<>>
    ELSE IF p[1] = "*"
    THEN \E i \in 0..Len(s) : GlobMatch(Tail(p), SubSeq(s, i + 1, Len(s)))
    ELSE IF s = <<>> THEN FALSE
    ELSE IF p[1] = "?" THEN GlobMatch(Tail(p), Tail(s))
    ELSE IF p[1] = "["
    THEN LET neg == Len(p) >= 2 /\ p[2] = "^"
             cls == ClassScan(p, IF neg THEN 3 ELSE 2, {})
         IN  /\ (s[1] \in cls.members) # neg
             /\ GlobMatch(SubSeq(p, cls.next, Len(p)), Tail(s))
    ELSE IF p[1] = "\\" /\ Len(p) >= 2
    THEN s[1] = p[2] /\ GlobMatch(SubSeq(p, 3, Len(p)), Tail(s))
    ELSE s[1] = p[1] /\ GlobMatch(Tail(p), Tail(s))

\* The backend's prefix and version as the characters key_func writes.
KeyPrefixText == <<KeyPrefix>>
NoPrefix == <<"None">>

str(version) == IF version.t = "int" THEN IntToText(version.i) ELSE version.s

\* make_key with an explicit prefix, on characters.
make_text_key(key, version, prefix) ==
    key_func(key, IF prefix = NoPrefix THEN KeyPrefixText ELSE prefix,
             str(IF version = PyNone THEN PyInt(DefaultVersion) ELSE version))

make_pattern(pattern, version, prefix) ==
    IF pattern.ck THEN pattern
    ELSE CacheKey(key_func(pattern.k,
                           glob_escape(IF prefix = NoPrefix THEN KeyPrefixText
                                       ELSE prefix),
                           glob_escape(str(IF version = PyNone
                                           THEN PyInt(DefaultVersion)
                                           ELSE version))))

\* The composed pattern against a composed key: key_func keeps prefix,
\* version and key apart, so each part meets its own.
KeyMatches(pattern, nkey) ==
    /\ GlobMatch(pattern[1], nkey[1])
    /\ GlobMatch(pattern[2], nkey[2])
    /\ GlobMatch(pattern[3], nkey[3])

\* The backend's reverse_key_func.
reverse_key(nkey) == nkey[3]

\* The keys of dataset d that match.
Matching(d, pattern) == {k \in DOMAIN d : Exists(d, k) /\ KeyMatches(pattern, k)}

\* --------------------------------------- delete_pattern, iter_keys, keys
MaxBatch == 2
MaxScans == 3

\* The ways to list the members of S.
RECURSIVE Orders(_)
Orders(S) ==
    IF S = {} THEN {<<>>}
    ELSE UNION {{<<x>> \o o : o \in Orders(S \ {x})} : x \in S}

\* A call of delete_pattern (with a prefix), iter_keys or keys (without).
CallPattern(p, op, search, version, prefix, client) ==
    /\ CanCall(p)
    /\ frame' = [frame EXCEPT ![p] =
          [IdleFrame EXCEPT !.op = op,
                            !.pc = IF op = "keys" THEN "keys_cmd" ELSE "scan",
                            !.search = search, !.version = version,
                            !.prefix = prefix,
                            !.pattern = make_pattern(search, version, prefix).k,
                            !.cursor = "start",
                            !.given = client, !.client = client]]
    /\ UNCHANGED <<config, clients, store, store0, pure>>

\* One SCAN of scan_iter(match=pattern). It replies with up to MaxBatch of
\* the keys that match and exist now; the scan ends only when every matching
\* key that was there all along has been replied (must), and it ends within
\* MaxScans replies.
ScanCall(p) ==
    LET f == frame[p]
        write == f.op = "delete_pattern"
    IN  /\ f.pc = "scan"
        /\ f.scans < MaxScans
        /\ \E idx \in (IF f.cursor = "start" THEN IndexChoices(f, write)
                       ELSE {f.client.server}) :
              LET client == IF f.cursor = "start" THEN ClientFor(f, idx) ELSE f.client
                  matching == Matching(store[client.server], f.pattern)
                  must == IF f.cursor = "start" THEN matching ELSE f.must \cap matching
              IN  /\ clients' = IF f.cursor = "start" THEN SlotsFor(f, idx) ELSE clients
                  /\ \E batch \in {b \in SUBSET matching : Cardinality(b) <= MaxBatch},
                        last \in BOOLEAN :
                        /\ last => must \subseteq batch
                        /\ ~last => Cardinality(must \ batch)
                                        <= (MaxScans - f.scans - 1) * MaxBatch
                        /\ ~last => f.scans + 1 < MaxScans
                        /\ frame' = [frame EXCEPT ![p] =
                              [f EXCEPT !.client = client,
                                        !.cursor = IF last THEN "end" ELSE "open",
                                        !.batch = batch,
                                        !.must = must \ batch,
                                        !.scans = @ + 1,
                                        !.pc = IF batch # {} THEN "scan_item"
                                               ELSE IF last THEN "done" ELSE "scan",
                                        !.ret = IF batch = {} /\ last
                                                THEN (IF write THEN Return(PyInt(f.count))
                                                      ELSE Return(PyList(f.found)))
                                                ELSE NoRet]]
        /\ UNCHANGED <<config, store, store0, pure>>

\* The next pc and result once an item of the batch is dealt with.
AfterItem(f, batch, ret) ==
    [f EXCEPT !.batch = batch,
              !.pc = IF batch # {} THEN "scan_item"
                     ELSE IF f.cursor = "end" THEN "done" ELSE "scan",
              !.ret = IF batch = {} /\ f.cursor = "end" THEN ret ELSE NoRet]

\* delete_pattern's loop body: client.delete(key); count += 1.
delete_pattern_count(count, reply) == count + 1

PatternDelete(p) ==
    LET f == frame[p]
    IN  /\ f.pc = "scan_item"
        /\ f.op = "delete_pattern"
        /\ \E key \in f.batch :
              LET out == RedisDEL(store[f.client.server], key)
                  count == delete_pattern_count(f.count, out.r)
                  g == [f EXCEPT !.count = count, !.removed = @ + out.r]
              IN  /\ store' = [store EXCEPT ![f.client.server] = out.d]
                  /\ frame' = [q \in Procs |->
                        IF q = p THEN AfterItem(g, f.batch \ {key}, Return(PyInt(count)))
                        ELSE [frame[q] EXCEPT !.must = @ \ {key}]]
        /\ UNCHANGED <<config, clients, store0, pure>>

\* iter_keys's loop body: yield self.reverse_key(item.decode()).
IterYield(p) ==
    LET f == frame[p]
    IN  /\ f.pc = "scan_item"
        /\ f.op = "iter_keys"
        /\ \E key \in f.batch :
              LET found == Append(f.found, reverse_key(key))
                  g == [f EXCEPT !.found = found]
              IN  frame' = [frame EXCEPT ![p] =
                        AfterItem(g, f.batch \ {key}, Return(PyList(found)))]
        /\ UNCHANGED <<config, clients, store, store0, pure>>

\* keys: KEYS on a read connection, each reply through reverse_key.
KeysCmd(p) ==
    LET f == frame[p]
    IN  /\ f.pc = "keys_cmd"
        /\ \E idx \in IndexChoices(f, FALSE) :
              LET client == ClientFor(f, idx)
              IN  /\ clients' = SlotsFor(f, idx)
                  /\ \E reply \in Orders(Matching(store[client.server], f.pattern)) :
                        frame' = [frame EXCEPT ![p] =
                            [f EXCEPT !.pc = "done", !.client = client,
                                      !.batch = Range(reply),
                                      !.found = [i \in 1..Len(reply) |->
                                                    reverse_key(reply[i])],
                                      !.ret = Return(PyList([i \in 1..Len(reply) |->
                                                    reverse_key(reply[i])]))]]
        /\ UNCHANGED <<config, store, store0, pure>>

\* ------------------------------------------------------------ failed reads
\* The transport-class exceptions the except clauses catch.
main_exceptions == {"TimeoutError", "ResponseError", "ConnectionError", "socket.timeout"}

ReadPcs == {"get_cmd", "get_many_cmd", "has_key_cmd", "keys_cmd", "ttl_exists",
            "ttl_query"}

\* What a read raises when its command fails with e: get, get_many, has_key
\* and keys wrap it, ttl and pttl have no except clause.
read_raises(op, e) ==
    IF op \in {"ttl", "pttl"} THEN e ELSE "ConnectionInterrupted"

\* The command a read is about to send fails with a transport-class error.
ReadFail(p) ==
    LET f == frame[p]
    IN  /\ f.pc \in ReadPcs
        /\ \E e \in main_exceptions,
              idx \in (IF f.pc = "ttl_query" THEN {f.client.server}
                       ELSE IndexChoices(f, FALSE)) :
              LET first == f.pc # "ttl_query"
                  client == IF first THEN ClientFor(f, idx) ELSE f.client
              IN  /\ clients' = IF first THEN SlotsFor(f, idx) ELSE clients
                  /\ frame' = [frame EXCEPT ![p] =
                        [f EXCEPT !.pc = "done", !.client = client,
                                  !.attempts = Append(@, client.server),
                                  !.failures = @ + 1,
                                  !.ret = Raise(read_raises(f.op, e))]]
        /\ UNCHANGED <<config, store, store0, pure>>

\* ------------------------------------------------- connection lifecycle
MaxConnects == 4

\* connection_factory.connect: a handle no earlier connect returned.
factory_connect(fac, index) ==
    LET h == [server |-> index, id |-> Cardinality(fac.made) + 1]
    IN  [h |-> h, fac |-> [fac EXCEPT !.made = @ \cup {h}]]

\* get_client's test of the slot.
needs_connect_always(slots, index) == TRUE

needs_connect(slots, index) == slots[index] = NoClient

\* disconnect(index): the slot's handle goes to the factory's disconnect, if
\* there is one.
disconnect(fac, slots, index) ==
    IF slots[index] # NoClient
    THEN [fac EXCEPT !.released = @ \cup {slots[index]}]
    ELSE fac

\* do_close_clients' loop from idx on.
RECURSIVE close_from(_, _, _)
close_from(fac, slots, idx) ==
    IF idx >= nServers THEN fac
    ELSE close_from(disconnect(fac, slots, idx), slots, idx + 1)

\* A call of get_client: the index is selected first.
CallGetClient(p, write, tried) ==
    /\ CanCall(p)
    /\ \E index \in get_next_client_index(write, tried) :
          frame' = [frame EXCEPT ![p] =
             [IdleFrame EXCEPT !.op = "get_client", !.pc = "gc_check",
                               !.tried = tried, !.index = index]]
    /\ UNCHANGED <<config, clients, store, store0, pure>>

\* if self._clients[index] is None
GcCheck(p) ==
    LET f == frame[p]
    IN  /\ f.pc = "gc_check"
        /\ frame' = [frame EXCEPT ![p] =
              [f EXCEPT !.pc = IF needs_connect(clients, f.index)
                               THEN "gc_connect" ELSE "gc_return"]]
        /\ UNCHANGED <<config, clients, store, store0, pure>>

\* self.connect(index)
GcConnect(p) ==
    LET f == frame[p]
        out == factory_connect(factory, f.index)
    IN  /\ f.pc = "gc_connect"
        /\ Cardinality(factory.made) < MaxConnects
        /\ factory' = out.fac
        /\ frame' = [frame EXCEPT ![p] = [f EXCEPT !.pc = "gc_store", !.client = out.h]]
        /\ UNCHANGED <<config, clients, store, store0, sel, codec>>

\* self._clients[index] = <the handle connect returned>
GcStore(p) ==
    LET f == frame[p]
    IN  /\ f.pc = "gc_store"
        /\ clients' = [clients EXCEPT ![f.index] = f.client]
        /\ frame' = [frame EXCEPT ![p] = [f EXCEPT !.pc = "gc_return"]]
        /\ UNCHANGED <<config, store, store0, pure>>

\* return self._clients[index]
GcReturn(p) ==
    LET f == frame[p]
    IN  /\ f.pc = "gc_return"
        /\ frame' = [frame EXCEPT ![p] =
              [f EXCEPT !.pc = "done", !.client = clients[f.index],
                        !.ret = Return(clients[f.index])]]
        /\ UNCHANGED <<config, clients, store, store0, pure>>

\* do_close_clients: every slot's handle is disconnected, then the slots are
\* replaced by as many empty ones.
DoCloseClients(p) ==
    /\ CanCall(p)
    /\ factory' = close_from(factory, clients, 0)
    /\ clients' = [i \in 0..(Cardinality(DOMAIN clients) - 1) |-> NoClient]
    /\ frame' = [frame EXCEPT ![p] =
          [IdleFrame EXCEPT !.op = "do_close_clients", !.pc = "done",
                            !.ret = Return(PyNone)]]
    /\ UNCHANGED <<config, store, store0, sel, codec>>

\* ----------------------------------------------------------- incr_version
\* self.ttl(key) with the caller's client: 0 for a missing key, else what
\* ttl makes of the TTL reply.
ttl(d, nkey) ==
    IF RedisEXISTS(d, nkey) = 0 THEN PyInt(0) ELSE ttl_result(RedisTTL(d, nkey))

\* new_key's version.
incr_version_target(version, delta) == version + delta

\* A call of incr_version; version None is the backend's version.
CallIncrVersion(p, key, delta, version, client) ==
    /\ CanCall(p)
    /\ frame' = [frame EXCEPT ![p] =
          [IdleFrame EXCEPT !.op = "incr_version", !.pc = "iv_get", !.key = key,
                            !.version = IF version = NoVersion
                                        THEN DefaultVersion ELSE version,
                            !.delta = delta,
                            !.given = client, !.client = client]]
    /\ UNCHANGED <<config, clients, store, store0, pure>>

\* value = self.get(old_key), on the write connection.
IvGet(p) ==
    LET f == frame[p]
    IN  /\ f.pc = "iv_get"
        /\ \E idx \in IndexChoices(f, TRUE) :
              LET client == ClientFor(f, idx)
                  old_key == make_key(f.key, f.version)
              IN  /\ clients' = SlotsFor(f, idx)
                  /\ frame' = [frame EXCEPT ![p] =
                        [f EXCEPT !.pc = "iv_ttl", !.client = client,
                                  !.value = get_result(store[client.server],
                                                       old_key.k)]]
        /\ UNCHANGED <<config, store, store0, pure>>

\* ttl = self.ttl(old_key), then the test of value.
IvTtl(p) ==
    LET f == frame[p]
        old_key == make_key(f.key, f.version)
        missing == f.value = PyNone
    IN  /\ f.pc = "iv_ttl"
        /\ frame' = [frame EXCEPT ![p] =
              [f EXCEPT !.pc = IF missing THEN "done" ELSE "iv_set",
                        !.timeout = ttl(store[f.client.server], old_key.k),
                        !.ret = IF missing THEN Raise("ValueError") ELSE NoRet]]
        /\ UNCHANGED <<config, clients, store, store0, pure>>

\* self.set(new_key, value, timeout=ttl, client=client)
IvSet(p) ==
    LET f == frame[p]
        new_key == make_key(f.key, incr_version_target(f.version, f.delta))
        timeout == set_millis(IF f.timeout = PyNone THEN PyNone
                              ELSE Num(f.timeout.i, 0))
        out == set_command(store[f.client.server], new_key, NoVersion,
                           encode(f.value), timeout, FALSE, FALSE)
    IN  /\ f.pc = "iv_set"
        /\ store' = [store EXCEPT ![f.client.server] = out.d]
        /\ frame' = [frame EXCEPT ![p] = [f EXCEPT !.pc = "iv_delete"]]
        /\ UNCHANGED <<config, clients, store0, pure>>

\* self.delete(old_key, client=client); return version + delta
IvDelete(p) ==
    LET f == frame[p]
        out == delete(store[f.client.server], make_key(f.key, f.version), NoVersion)
    IN  /\ f.pc = "iv_delete"
        /\ store' = [store EXCEPT ![f.client.server] = out.d]
        /\ frame' = [frame EXCEPT ![p] =
              [f EXCEPT !.pc = "done",
                        !.ret = Return(PyInt(f.version + f.delta))]]
        /\ UNCHANGED <<config, clients, store0, pure>>

\* ------------------------------------------------------------------ lists
\* A list key maps to its elements, head first. An element is the bytes the
\* store keeps; app is history: the value the element was pushed as.
Elem(value) == [val |-> WireBytes(encode(value)), app |-> value]

NoElem == [val |-> <<>>, app |-> PyNone]

MaxList == 3

\* LPUSH key v1 v2 ...: each value in turn becomes the head.
RECURSIVE RedisLPUSH(_, _, _)
RedisLPUSH(d, k, elems) ==
    IF elems = <<>> THEN [d |-> d, r |-> Len(d[k])]
    ELSE RedisLPUSH([d EXCEPT ![k] = <<Head(elems)>> \o @], k, Tail(elems))

\* LRANGE key start end: indices count from 0, negative ones from the tail.
RedisLRANGE(d, k, start, end) ==
    LET n == Len(d[k])
        from == IF start < 0 THEN (IF n + start < 0 THEN 0 ELSE n + start) ELSE start
        to == IF end < 0 THEN n + end ELSE (IF end >= n THEN n - 1 ELSE end)
    IN  IF from > to THEN <<>> ELSE SubSeq(d[k], from + 1, to + 1)

\* LINDEX key index: nil outside the list.
RedisLINDEX(d, k, index) ==
    LET n == Len(d[k])
        i == IF index < 0 THEN n + index ELSE index
    IN  IF i >= 0 /\ i < n THEN [nil |-> FALSE, e |-> d[k][i + 1]]
        ELSE [nil |-> TRUE, e |-> NoElem]

\* LPOP and RPOP: nil for an empty list.
RedisLPOP(d, k) ==
    IF d[k] = <<>> THEN [d |-> d, nil |-> TRUE, e |-> NoElem]
    ELSE [d |-> [d EXCEPT ![k] = Tail(@)], nil |-> FALSE, e |-> Head(d[k])]

RedisRPOP(d, k) ==
    IF d[k] = <<>> THEN [d |-> d, nil |-> TRUE, e |-> NoElem]
    ELSE [d |-> [d EXCEPT ![k] = SubSeq(@, 1, Len(@) - 1)], nil |-> FALSE,
          e |-> d[k][Len(d[k])]]

\* list_pop returns the reply of RPOP or LPOP as it came.
list_pop(d, nkey, desc) ==
    LET out == IF desc THEN RedisRPOP(d, nkey) ELSE RedisLPOP(d, nkey)
    IN  [d |-> out.d, r |-> IF out.nil THEN PyNone ELSE PyBytes(out.e.val)]

\* list_push sends LPUSH with every value encoded; desc is not used.
list_push(d, nkey, values, desc) ==
    RedisLPUSH(d, nkey, [i \in 1..Len(values) |-> Elem(values[i])])

\* list_range decodes every element of the reply.
list_range(d, nkey, start, end) ==
    LET reply == RedisLRANGE(d, nkey, start, end)
    IN  PyList([i \in 1..Len(reply) |-> decode(reply[i].val)])

\* list_index decodes the reply; the index is one inside the list.
list_index(d, nkey, index) == decode(RedisLINDEX(d, nkey, index).e.val)

\* A call of one of the list wrappers.
CallList(p, op, key, values, desc, start, end, index, version, client) ==
    /\ CanCall(p)
    /\ frame' = [frame EXCEPT ![p] =
          [IdleFrame EXCEPT !.op = op, !.pc = "list_cmd", !.key = key,
                            !.version = version, !.values = values,
                            !.desc = desc, !.start = start, !.stop = end,
                            !.at = index,
                            !.given = client, !.client = client]]
    /\ UNCHANGED <<config, clients, store, store0, pure>>

\* The wrapper's one command, on the connection get_client gives it (the
\* write argument is True, by its default for the reads too).
ListCmd(p) ==
    LET f == frame[p]
    IN  /\ f.pc = "list_cmd"
        /\ \E idx \in IndexChoices(f, TRUE) :
              LET client == ClientFor(f, idx)
                  d == store[client.server]
                  nkey == make_key(f.key, f.version).k
                  push == list_push(d, nkey, f.values, f.desc)
                  pop == list_pop(d, nkey, f.desc)
              IN  /\ clients' = SlotsFor(f, idx)
                  /\ store' = [store EXCEPT ![client.server] =
                        IF f.op = "list_push" THEN push.d
                        ELSE IF f.op = "list_pop" THEN pop.d
                        ELSE @]
                  /\ frame' = [frame EXCEPT ![p] =
                        [f EXCEPT !.pc = "done", !.client = client,
                           !.ret = Return(
                              IF f.op = "list_push" THEN PyInt(push.r)
                              ELSE IF f.op = "list_pop" THEN pop.r
                              ELSE IF f.op = "list_range"
                              THEN list_range(d, nkey, f.start, f.stop)
                              ELSE list_index(d, nkey, f.at))]]
        /\ UNCHANGED <<config, store0, pure>>

\* ------------------------------------------------------------------- time
Age(e) ==
    IF e.exp > 0 /\ e.exp <= HorizonMs
    THEN (IF e.exp > TickMs THEN [e EXCEPT !.exp = @ - TickMs] ELSE Absent)
    ELSE e

\* TickMs milliseconds pass on every server; keys whose life ends expire.
Tick ==
    /\ store' = [i \in DOMAIN store |-> [k \in NKeys |-> Age(store[i][k])]]
    /\ store' # store
    /\ UNCHANGED <<config, clients, store0, frame, pure>>

\* ------------------------------------------------------------ datasets
Entry(v, exp) == [val |-> WireBytes(encode(v)), exp |-> exp]

K1 == key_func("k1", KeyPrefix, DefaultVersion)
K2 == key_func("k2", KeyPrefix, DefaultVersion)

EmptyData == [k \in NKeys |-> Absent]

\* ================================================================= SpecSel
\* One call of get_next_client_index on any server count, write flag and
\* tried list.
SelIdle == [pc |-> "off", write |-> TRUE, tried |-> <<>>, result |-> -1]
CodecIdle == [pc |-> "off", value |-> PyNone, stored |-> <<>>, out |-> PyNone]

InitSel ==
    /\ nServers \in 1..MaxServers
    /\ replica_read_only = TRUE
    /\ compressor = "identity"
    /\ clients = [i \in 0..(nServers - 1) |-> NoClient]
    /\ store = [i \in 0..(nServers - 1) |-> EmptyData]
    /\ store0 = store
    /\ factory = NoFactory
    /\ frame = [p \in Procs |-> IdleFrame]
    /\ codec = CodecIdle
    /\ \E w \in BOOLEAN, tr \in SeqsUpTo(0..(nServers - 1), MaxTried) :
          sel = [pc |-> "call", write |-> w, tried |-> tr, result |-> -1]

Select ==
    /\ sel.pc = "call"
    /\ \E r \in get_next_client_index(sel.write, sel.tried) :
          sel' = [sel EXCEPT !.pc = "done", !.result = r]
    /\ UNCHANGED <<config, clients, store, store0, frame, codec, factory>>

NextSel == Select

SpecSel == InitSel /\ [][NextSel]_vars

\* =============================================================== SpecCodec
\* One supported value taken through encode, the wire and decode.
StrChars == {"a", "7", "-"}

AppValues ==
    {PyInt(i) : i \in (0 - MaxInt)..MaxInt}
    \cup {PyBool(b) : b \in BOOLEAN}
    \cup {PyStr(s) : s \in SeqsUpTo(StrChars, MaxStrLen)}

InitCodec ==
    /\ nServers = 1
    /\ replica_read_only = TRUE
    /\ compressor \in {"identity", "zlib"}
    /\ clients = [i \in 0..(nServers - 1) |-> NoClient]
    /\ store = [i \in 0..(nServers - 1) |-> EmptyData]
    /\ store0 = store
    /\ factory = NoFactory
    /\ frame = [p \in Procs |-> IdleFrame]
    /\ sel = SelIdle
    /\ \E v \in AppValues :
          codec = [pc |-> "encode", value |-> v, stored |-> <<>>, out |-> PyNone]

Encode ==
    /\ codec.pc = "encode"
    /\ codec' = [codec EXCEPT !.pc = "decode",
                              !.stored = WireBytes(encode(codec.value))]
    /\ UNCHANGED <<config, clients, store, store0, frame, sel, factory>>

Decode ==
    /\ codec.pc = "decode"
    /\ codec' = [codec EXCEPT !.pc = "done", !.out = decode(codec.stored)]
    /\ UNCHANGED <<config, clients, store, store0, frame, sel, factory>>

NextCodec == Encode \/ Decode

SpecCodec == InitCodec /\ [][NextCodec]_vars

\* ================================================================= SpecSet
\* One call of set on any server count and configuration, with or without a
\* caller's client, each pass of its loop accepted or failed by the transport.
\* Datasets earlier calls of set leave behind.
SetInitPrimary ==
    {[k \in NKeys |-> IF k = K1 THEN e1 ELSE IF k = K2 THEN e2 ELSE Absent] :
        e1 \in {Absent, Entry(PyInt(5), -1)},
        e2 \in {Absent, Entry(PyStr(<<"a">>), -1)}}

SetInitReplica ==
    {[k \in NKeys |-> IF k = K1 THEN e1 ELSE Absent] :
        e1 \in {Absent, Entry(PyInt(5), -1)}}

SetTimeouts == {PyNone, DEFAULT_TIMEOUT, Num(0, 0), Num(-5, 0)}

Flags == {<<FALSE, FALSE>>, <<TRUE, FALSE>>, <<FALSE, TRUE>>}

InitSet ==
    /\ nServers \in 1..MaxServers
    /\ replica_read_only \in BOOLEAN
    /\ compressor = "identity"
    /\ clients = [i \in 0..(nServers - 1) |-> NoClient]
    /\ store \in [0..(nServers - 1) -> SetInitPrimary]
    /\ \A i \in 1..(nServers - 1) : store[i] \in SetInitReplica
    /\ store0 = store
    /\ factory = NoFactory
    /\ frame = [p \in Procs |-> IdleFrame]
    /\ sel = SelIdle
    /\ codec = CodecIdle

SetStep == SetAttemptOk(1) \/ SetAttemptFail(1)

NextSet ==
    \/ /\ frame[1].pc = "idle"
       /\ \E timeout \in SetTimeouts, fl \in Flags,
             client \in {NoClient} \cup {GivenClient(i) : i \in 0..(nServers - 1)} :
             CallSet(1, PlainKey("k1"), PyInt(7), timeout, NoVersion, client,
                     fl[1], fl[2])
    \/ SetStep

SpecSet == InitSet /\ [][NextSet]_vars /\ WF_vars(SetStep)

\* ==================================================================== Spec
\* One caller running any sequence of set, delete, get, has_key, ttl, pttl,
\* incr and decr, every command accepted, while time passes.
MaxCounter == 4

Values == {PyInt(2), PyBool(TRUE), PyStr(<<"a">>)}

Timeouts == {PyNone, Num(1200, -1), Num(0, 0), Num(-5, 0), Num(500, -2)}

Deltas == {1, 2}

\* The counter stays within MaxCounter: a call that would take it further is
\* not made.
CounterRoom(key, delta) ==
    LET e == store[0][make_key(key, NoVersion).k]
        cur == ParseInt(e.val)
    IN  (e # Absent /\ cur.ok) =>
            (cur.i + delta <= MaxCounter /\ cur.i - delta >= 0 - MaxCounter)

Init ==
    /\ nServers \in 1..MaxServers
    /\ replica_read_only = TRUE
    /\ compressor = "identity"
    /\ clients = [i \in 0..(nServers - 1) |-> NoClient]
    /\ store = [i \in 0..(nServers - 1) |-> EmptyData]
    /\ store0 = store
    /\ factory = NoFactory
    /\ frame = [p \in Procs |-> IdleFrame]
    /\ sel = SelIdle
    /\ codec = CodecIdle

Calls ==
    \/ \E value \in Values, timeout \in Timeouts, fl \in Flags :
          CallSet(1, PlainKey("k1"), value, timeout, NoVersion, NoClient, fl[1], fl[2])
    \/ CallSet(1, PlainKey("k2"), PyStr(<<"a">>), PyNone, NoVersion, NoClient,
               FALSE, FALSE)
    \/ \E op \in {"delete", "get", "has_key", "ttl", "pttl"} :
          CallKeyOp(1, op, PlainKey("k1"), NoVersion, NoClient)
    \/ \E op \in {"incr", "decr"}, delta \in Deltas, ignore \in BOOLEAN :
          /\ CounterRoom(PlainKey("k1"), delta)
          /\ CallIncr(1, op, PlainKey("k1"), delta, NoVersion, NoClient, ignore)

Steps ==
    \/ SetAttemptOk(1)
    \/ DeleteCmd(1)
    \/ GetCmd(1)
    \/ HasKeyCmd(1)
    \/ TtlExists(1)
    \/ TtlQuery(1)
    \/ IncrEval(1)
    \/ FbExists(1)
    \/ FbTtl(1)
    \/ FbGet(1)
    \/ FbSet(1)

Next == Calls \/ Steps \/ Tick

Spec == Init /\ [][Next]_vars

\* ================================================================ SpecConc
\* Several callers, one call each of incr, decr (ignore_key_check false) or
\* delete on one key that holds a natively stored integer without expiration,
\* their commands interleaved in any order, every command accepted.
ConcInitial == {0 - Int64Max - 1, 0, Int64Max - 1, Int64Max}

InitConc ==
    /\ nServers \in {1, MaxServers}
    /\ replica_read_only = TRUE
    /\ compressor = "identity"
    /\ clients = [i \in 0..(nServers - 1) |-> NoClient]
    /\ \E v \in ConcInitial :
          store = [i \in 0..(nServers - 1) |->
                      IF i = 0 THEN [EmptyData EXCEPT ![K1] = Entry(PyInt(v), -1)]
                      ELSE EmptyData]
    /\ store0 = store
    /\ factory = NoFactory
    /\ frame = [p \in Procs |-> IdleFrame]
    /\ sel = SelIdle
    /\ codec = CodecIdle

\* The callers are interchangeable, so they are numbered by what they call:
\* caller p starts after caller p - 1, with a call that does not come before
\* that caller's in the order delete, incr, decr and then by delta. Starting
\* a call touches nothing shared; the commands of the calls interleave freely.
KindOrder(op) == IF op = "delete" THEN 0 ELSE IF op = "incr" THEN 1 ELSE 2

NotBefore(p, op, delta) ==
    IF p = 1 THEN TRUE
    ELSE LET f == frame[p - 1]
             d == IF f.delta < 0 THEN 0 - f.delta ELSE f.delta
         IN  /\ f.pc # "idle"
             /\ \/ KindOrder(op) > KindOrder(f.op)
                \/ KindOrder(op) = KindOrder(f.op) /\ delta >= d

ConcCalls ==
    \E p \in Procs :
       /\ frame[p].pc = "idle"
       /\ \/ \E op \in {"incr", "decr"}, delta \in Deltas :
                /\ NotBefore(p, op, delta)
                /\ CallIncr(p, op, PlainKey("k1"), delta, NoVersion, NoClient, FALSE)
          \/ /\ NotBefore(p, "delete", 0)
             /\ CallKeyOp(p, "delete", PlainKey("k1"), NoVersion, NoClient)

ConcSteps ==
    \E p \in Procs :
       \/ IncrEval(p)
       \/ FbExists(p)
       \/ FbTtl(p)
       \/ FbGet(p)
       \/ FbSet(p)
       \/ DeleteCmd(p)

NextConc == ConcCalls \/ ConcSteps

SpecConc == InitConc /\ [][NextConc]_vars

\* ================================================================= SpecAdd
\* Several callers, one call each of add on the same key of the same server,
\* their commands interleaved in any order and accepted, on a key that is
\* absent or present, with or without expiration.
AddTimeouts == {PyNone, DEFAULT_TIMEOUT, Num(1200, -1), Num(500, -2)}

AddInitial == {Absent, Entry(PyInt(5), -1), Entry(PyInt(5), 3 * TickMs)}

\* add(key, value, timeout, version, client): set with nx.
CallAdd(p, key, value, timeout, version, client) ==
    CallSet(p, key, value, timeout, version, client, TRUE, FALSE)

InitAdd ==
    /\ nServers \in {1, MaxServers}
    /\ replica_read_only = TRUE
    /\ compressor = "identity"
    /\ clients = [i \in 0..(nServers - 1) |-> NoClient]
    /\ \E e \in AddInitial :
          store = [i \in 0..(nServers - 1) |->
                      IF i = 0 THEN [EmptyData EXCEPT ![K1] = e] ELSE EmptyData]
    /\ store0 = store
    /\ factory = NoFactory
    /\ frame = [p \in Procs |-> IdleFrame]
    /\ sel = SelIdle
    /\ codec = CodecIdle

\* Caller p adds the value p.
AddCalls ==
    \E p \in Procs, timeout \in AddTimeouts :
       /\ frame[p].pc = "idle"
       /\ CallAdd(p, PlainKey("k1"), PyInt(p), timeout, NoVersion, NoClient)

AddSteps == \E p \in Procs : SetAttemptOk(p)

NextAdd == AddCalls \/ AddSteps

SpecAdd == InitAdd /\ [][NextAdd]_vars

\* ================================================================ SpecMany
\* One caller on a single server running any sequence of set_many and
\* get_many, every command accepted, while time passes.
ManyValues == {PyInt(1), PyInt(2), PyStr(<<"a">>)}

ManyTimeouts == {PyNone, DEFAULT_TIMEOUT, Num(1200, -1), Num(500, -2)}

\* The dicts over the logical keys, as their items in insertion order.
ManyData ==
    {<<>>}
    \cup {<<<<k, v>>>> : k \in LKeys, v \in ManyValues}
    \cup {<<<<kl[1], v>>, <<kl[2], w>>>> :
              kl \in {x \in LKeys \X LKeys : x[1] # x[2]},
              v \in ManyValues, w \in ManyValues}

InitMany ==
    /\ nServers = 1
    /\ replica_read_only = TRUE
    /\ compressor = "identity"
    /\ clients = [i \in 0..(nServers - 1) |-> NoClient]
    /\ store = [i \in 0..(nServers - 1) |-> EmptyData]
    /\ store0 = store
    /\ factory = NoFactory
    /\ frame = [p \in Procs |-> IdleFrame]
    /\ sel = SelIdle
    /\ codec = CodecIdle

ManyCalls ==
    \/ \E data \in ManyData, timeout \in ManyTimeouts :
          CallSetMany(1, data, timeout, NoVersion, NoClient)
    \/ \E keys \in SeqsUpTo(LKeys, MaxKeys) :
          CallGetMany(1, keys, NoVersion, NoClient)

ManySteps == SetManyExec(1) \/ GetManyCmd(1)

NextMany == ManyCalls \/ ManySteps \/ Tick

SpecMany == InitMany /\ [][NextMany]_vars

\* ============================================================= SpecPattern
\* One caller, one call of delete_pattern, iter_keys or keys on a single
\* server that holds keys of the caller's prefix and version and keys of
\* another prefix or version, none with an expiration; no one else writes.
PatPrefixes ==
    {NoPrefix, <<"a">>, <<"*">>, <<"a", "?">>, <<"[", "a", "]">>, <<"a", "\\", "b">>}

OtherPrefixes == {<<"a">>, <<"a", "b">>, <<"*">>, <<"[", "a", "]">>}

PatVersions == {PyNone, PyInt(2), PyStr(<<"?">>)}

OtherVersions == {<<"1">>, <<"2">>, <<"?">>}

PatLKeys == {<<"u", "1">>, <<"u", "2">>, <<"o", "1">>}

Searches == {<<"u", "*">>, <<"*">>, <<"u", "?">>, <<"o", "1">>}

\* The prefix and version a call's keys are composed with.
OwnPrefix(f) == IF f.prefix = NoPrefix THEN KeyPrefixText ELSE f.prefix
OwnVersion(f) == str(IF f.version = PyNone THEN PyInt(DefaultVersion) ELSE f.version)

\* The datasets: some of the caller's keys, and every key of one other
\* prefix or of one other version.
PatternData(prefix, version) ==
    LET f == [prefix |-> prefix, version |-> version]
        others == {<<q, OwnVersion(f)>> : q \in OtherPrefixes \ {OwnPrefix(f)}}
                  \cup {<<OwnPrefix(f), w>> : w \in OtherVersions \ {OwnVersion(f)}}
    IN  {[k \in {key_func(l, OwnPrefix(f), OwnVersion(f)) : l \in PatLKeys}
                \cup {key_func(l, o[1], o[2]) : l \in PatLKeys} |->
            IF k[1] = OwnPrefix(f) /\ k[2] = OwnVersion(f) /\ k[3] \notin own
            THEN Absent ELSE Entry(PyInt(5), -1)] :
         own \in {{}, {<<"u", "1">>, <<"o", "1">>}, PatLKeys}, o \in others}

InitPattern ==
    /\ nServers = 1
    /\ replica_read_only = TRUE
    /\ compressor = "identity"
    /\ clients = [i \in 0..(nServers - 1) |-> NoClient]
    /\ \E prefix \in PatPrefixes, version \in PatVersions :
          /\ frame = [p \in Procs |->
                IF p = 1 THEN [IdleFrame EXCEPT !.prefix = prefix, !.version = version]
                ELSE IdleFrame]
          /\ \E d \in PatternData(prefix, version) : store = [i \in {0} |-> d]
    /\ store0 = store
    /\ factory = NoFactory
    /\ sel = SelIdle
    /\ codec = CodecIdle

\* The caller's one call, with the prefix and version chosen at the start:
\* iter_keys and keys take no prefix.
PatternCalls ==
    /\ frame[1].pc = "idle"
    /\ \E search \in Searches :
          \/ CallPattern(1, "delete_pattern", PlainKey(search), frame[1].version,
                         frame[1].prefix, NoClient)
          \/ /\ frame[1].prefix = NoPrefix
             /\ \E op \in {"iter_keys", "keys"} :
                   CallPattern(1, op, PlainKey(search), frame[1].version,
                               NoPrefix, NoClient)

PatternSteps == ScanCall(1) \/ PatternDelete(1) \/ IterYield(1) \/ KeysCmd(1)

NextPattern == PatternCalls \/ PatternSteps

SpecPattern == InitPattern /\ [][NextPattern]_vars

\* ============================================================ SpecScanRace
\* Two callers, one call each of delete_pattern on the same server, their
\* SCAN and DEL commands interleaved in any order: each is the other client
\* that deletes matching keys while the other's scan runs.
Racers == {1, 2}

InitScanRace ==
    /\ nServers = 1
    /\ replica_read_only = TRUE
    /\ compressor = "identity"
    /\ clients = [i \in 0..(nServers - 1) |-> NoClient]
    /\ \E own \in SUBSET PatLKeys :
          store = [i \in {0} |->
                     [k \in {key_func(l, KeyPrefixText, IntToText(DefaultVersion)) :
                                l \in PatLKeys} |->
                         IF k[3] \in own THEN Entry(PyInt(5), -1) ELSE Absent]]
    /\ store0 = store
    /\ factory = NoFactory
    /\ frame = [p \in Procs |-> [IdleFrame EXCEPT !.prefix = NoPrefix,
                                                  !.version = PyNone]]
    /\ sel = SelIdle
    /\ codec = CodecIdle

ScanRaceCalls ==
    \E p \in Racers, search \in {<<"u", "*">>, <<"*">>} :
       /\ frame[p].pc = "idle"
       /\ CallPattern(p, "delete_pattern", PlainKey(search), PyNone, NoPrefix, NoClient)

ScanRaceSteps == \E p \in Racers : ScanCall(p) \/ PatternDelete(p)

NextScanRace == ScanRaceCalls \/ ScanRaceSteps

SpecScanRace == InitScanRace /\ [][NextScanRace]_vars

\* ================================================================ SpecRead
\* One caller running reads (get, get_many, has_key, keys, ttl, pttl) on any
\* server count, each command accepted or failed by the transport.
InitRead ==
    /\ nServers \in 1..MaxServers
    /\ replica_read_only \in BOOLEAN
    /\ compressor = "identity"
    /\ clients = [i \in 0..(nServers - 1) |-> NoClient]
    /\ \E e \in {Absent, Entry(PyInt(5), -1), Entry(PyInt(5), 3 * TickMs)} :
          store = [i \in 0..(nServers - 1) |-> [EmptyData EXCEPT ![K1] = e]]
    /\ store0 = store
    /\ factory = NoFactory
    /\ frame = [p \in Procs |-> IdleFrame]
    /\ sel = SelIdle
    /\ codec = CodecIdle

ReadCalls ==
    \E client \in {NoClient} \cup {GivenClient(i) : i \in 0..(nServers - 1)} :
       \/ \E op \in {"get", "has_key", "ttl", "pttl"} :
             CallKeyOp(1, op, PlainKey("k1"), NoVersion, client)
       \/ \E keys \in {<<"k1">>, <<"k2", "k1">>} :
             CallGetMany(1, keys, NoVersion, client)
       \/ CallPattern(1, "keys", PlainKey(<<"*">>), PyNone, NoPrefix, client)

ReadSteps ==
    \/ GetCmd(1)
    \/ GetManyCmd(1)
    \/ HasKeyCmd(1)
    \/ TtlExists(1)
    \/ TtlQuery(1)
    \/ ReadFail(1)

NextRead == ReadCalls \/ ReadSteps

SpecRead == InitRead /\ [][NextRead]_vars

\* ================================================================ SpecConn
\* One caller running get_client and do_close_clients one after the other, on
\* any server count.
InitConn ==
    /\ nServers \in 1..MaxServers
    /\ replica_read_only \in BOOLEAN
    /\ compressor = "identity"
    /\ clients = [i \in 0..(nServers - 1) |-> NoClient]
    /\ store = [i \in 0..(nServers - 1) |-> EmptyData]
    /\ store0 = store
    /\ factory = NoFactory
    /\ frame = [p \in Procs |-> IdleFrame]
    /\ sel = SelIdle
    /\ codec = CodecIdle

ConnCalls ==
    \/ \E write \in BOOLEAN, tried \in SeqsUpTo(0..(nServers - 1), 1) :
          CallGetClient(1, write, tried)
    \/ DoCloseClients(1)

ConnSteps ==
    \/ GcCheck(1)
    \/ GcConnect(1)
    \/ GcStore(1)
    \/ GcReturn(1)

NextConn == ConnCalls \/ ConnSteps

SpecConn == InitConn /\ [][NextConn]_vars

\* ============================================================ SpecConnRace
\* Two callers, one call of get_client each, their steps interleaved in any
\* order.
InitConnRace ==
    /\ nServers \in 1..MaxServers
    /\ replica_read_only \in BOOLEAN
    /\ compressor = "identity"
    /\ clients = [i \in 0..(nServers - 1) |-> NoClient]
    /\ store = [i \in 0..(nServers - 1) |-> EmptyData]
    /\ store0 = store
    /\ factory = NoFactory
    /\ frame = [p \in Procs |-> IdleFrame]
    /\ sel = SelIdle
    /\ codec = CodecIdle

ConnRaceCalls ==
    \E p \in Racers, write \in BOOLEAN :
       /\ frame[p].pc = "idle"
       /\ CallGetClient(p, write, <<>>)

ConnRaceSteps ==
    \E p \in Racers : GcCheck(p) \/ GcConnect(p) \/ GcStore(p) \/ GcReturn(p)

NextConnRace == ConnRaceCalls \/ ConnRaceSteps

SpecConnRace == InitConnRace /\ [][NextConnRace]_vars

\* ============================================================= SpecVersion
\* One call of incr_version on one server, on a key that is stored under one
\* version with any remaining life, or under none; no other writer, and no
\* time passes during the call.
MaxVersion == 3

VKeys == {key_func("k1", KeyPrefix, v) : v \in 1..MaxVersion}

VersionDeltas == {-1, 0, 1}

VersionLives == {-1, TickMs - 300, TickMs, 3 * TickMs - 300, 4 * TickMs}

VersionData ==
    {[k \in VKeys |-> Absent]}
    \cup {[k \in VKeys |-> IF k[2] = v THEN Entry(val, exp) ELSE Absent] :
             v \in 1..2, val \in {PyInt(5), PyStr(<<"a">>)}, exp \in VersionLives}

InitVersion ==
    /\ nServers = 1
    /\ replica_read_only = TRUE
    /\ compressor = "identity"
    /\ clients = [i \in 0..(nServers - 1) |-> NoClient]
    /\ \E d \in VersionData : store = [i \in 0..(nServers - 1) |-> d]
    /\ store0 = store
    /\ factory = NoFactory
    /\ frame = [p \in Procs |-> IdleFrame]
    /\ sel = SelIdle
    /\ codec = CodecIdle

VersionCalls ==
    \E delta \in VersionDeltas, version \in {NoVersion, 2},
       client \in {NoClient, GivenClient(0)} :
       /\ frame[1].pc = "idle"
       /\ incr_version_target(IF version = NoVersion THEN DefaultVersion
                              ELSE version, delta) \in 1..MaxVersion
       /\ CallIncrVersion(1, PlainKey("k1"), delta, version, client)

VersionSteps == IvGet(1) \/ IvTtl(1) \/ IvSet(1) \/ IvDelete(1)

NextVersion == VersionCalls \/ VersionSteps

SpecVersion == InitVersion /\ [][NextVersion]_vars

\* ================================================================ SpecList
\* One caller running list_push, list_range, list_index and list_pop on one
\* key, on one server, every command accepted.
ListValues == {PyInt(5), PyInt(-3), PyBool(TRUE), PyStr(<<"a">>)}

ListPushes ==
    {<<v>> : v \in ListValues} \cup {<<PyInt(5), PyStr(<<"a">>)>>}

InitList ==
    /\ nServers = 1
    /\ replica_read_only = TRUE
    /\ compressor \in {"identity", "zlib"}
    /\ clients = [i \in 0..(nServers - 1) |-> NoClient]
    /\ store = [i \in 0..(nServers - 1) |-> [k \in NKeys |-> <<>>]]
    /\ store0 = store
    /\ factory = NoFactory
    /\ frame = [p \in Procs |-> IdleFrame]
    /\ sel = SelIdle
    /\ codec = CodecIdle

ListCalls ==
    \/ \E values \in ListPushes, desc \in BOOLEAN :
          /\ Len(store[0][K1]) + Len(values) <= MaxList
          /\ CallList(1, "list_push", PlainKey("k1"), values, desc, 0, -1, 0,
                      NoVersion, NoClient)
    \/ \E range \in {<<0, -1>>, <<1, 1>>, <<-2, -1>>} :
          CallList(1, "list_range", PlainKey("k1"), <<>>, FALSE, range[1],
                   range[2], 0, NoVersion, NoClient)
    \/ \E index \in {0, -1} :
          /\ store[0][K1] # <<>>
          /\ CallList(1, "list_index", PlainKey("k1"), <<>>, FALSE, 0, -1, index,
                      NoVersion, NoClient)
    \/ \E desc \in BOOLEAN :
          CallList(1, "list_pop", PlainKey("k1"), <<>>, desc, 0, -1, 0,
                   NoVersion, NoClient)

NextList == ListCalls \/ ListCmd(1)

SpecList == InitList /\ [][NextList]_vars

\* ------------------------------------------------------------------ C1
NoDuplicates(s) == \A i, j \in 1..Len(s) : i # j => s[i] # s[j]

\* C1: within one call of set without a caller's client and with
\* REPLICA_READ_ONLY false, no server index is used for more than one
\* attempt: a failed index is recorded in tried and not selected again.
C1_NoIndexTwice ==
    \A p \in Procs :
        (frame[p].op = "set" /\ frame[p].given = NoClient /\ ~replica_read_only)
            => NoDuplicates(frame[p].attempts)

\* ------------------------------------------------------------------ C2
\* C2: set makes exactly one attempt and raises ConnectionInterrupted on a
\* transport failure when the caller supplied a client or replicas are
\* read-only; a further attempt happens only if no client was supplied,
\* REPLICA_READ_ONLY is false and untried server indices remain.
C2_RetryPolicy ==
    \A p \in Procs :
        LET f == frame[p]
        IN  f.op = "set" =>
              /\ ((f.given # NoClient \/ replica_read_only) /\ f.failures > 0)
                    => /\ f.pc = "done"
                       /\ Len(f.attempts) = 1
                       /\ f.ret = Raise("ConnectionInterrupted")
              /\ \A j \in 2..Len(f.attempts) :
                    /\ f.given = NoClient
                    /\ ~replica_read_only
                    /\ Range(SubSeq(f.attempts, 1, j - 1)) # 0..(nServers - 1)

\* ------------------------------------------------------------------ C3
SetOutcome(f) ==
    /\ Len(f.attempts) <= nServers + 1
    /\ f.pc = "done" =>
          \/ /\ f.ret.kind = "return"
             /\ f.ret.v.t = "bool"
             /\ f.failures = Len(f.attempts) - 1
          \/ /\ f.ret = Raise("ConnectionInterrupted")
             /\ f.failures = Len(f.attempts)

\* C3: every call of set terminates for any pattern of transport failures:
\* the attempts are bounded, and the call returns the boolean outcome of a
\* command a server accepted or raises ConnectionInterrupted; when every
\* attempt failed it raises ConnectionInterrupted.
C3_SetTerminates ==
    /\ [](\A p \in Procs : frame[p].op = "set" => SetOutcome(frame[p]))
    /\ \A p \in Procs : (frame[p].pc = "set_loop") ~> (frame[p].pc = "done")

\* Every server failed, and the call raised after its last attempt.
C3_Witness ==
    /\ nServers = 2
    /\ frame[1].pc = "done"
    /\ frame[1].failures = 3
    /\ frame[1].ret = Raise("ConnectionInterrupted")

\* ------------------------------------------------------------------ C4
\* C4: get_next_client_index(write, tried) agrees with the reference
\* selector: with a non-empty tried list of fewer than N entries the result is
\* an index of [0, N-1] that is not in tried; otherwise a write, or any call
\* with N = 1, gets 0; otherwise (a read, N > 1) the result is in [1, N-1].
C4_SelectorAgrees ==
    sel.pc = "done" =>
        IF Len(sel.tried) > 0 /\ Len(sel.tried) < nServers
        THEN /\ sel.result \in 0..(nServers - 1)
             /\ \A j \in 1..Len(sel.tried) : sel.tried[j] # sel.result
        ELSE IF sel.write \/ nServers = 1
        THEN sel.result = 0
        ELSE sel.result >= 1 /\ sel.result <= nServers - 1

\* A read on several servers after one recorded failure picked an untried
\* index.
C4_Witness ==
    /\ sel.pc = "done"
    /\ ~sel.write
    /\ nServers = 3
    /\ sel.tried = <<1>>
    /\ sel.result = 2

\* ------------------------------------------------------------------ C5
\* The namespaced key of a call, composed as the backend's key function does.
NKeyOf(f) ==
    <<KeyPrefix, IF f.version = NoVersion THEN DefaultVersion ELSE f.version, f.key.k>>

\* A pass of set's loop that ends the call of caller p with a result.
SetReturns(p) ==
    /\ frame[p].op = "set"
    /\ frame[p].pc = "set_loop"
    /\ frame'[p].pc = "done"
    /\ frame'[p].ret.kind = "return"

\* int(timeout * 1000) <= 0 for the finite timeout of a call of set.
NonPositiveTtl(f) == f.timeout # PyNone /\ PyIntOf(Mul1000(f.timeout)).m <= 0

\* C5: set with nx = false (whatever xx is) and a finite TTL whose millisecond
\* conversion is <= 0 leaves the store as delete(key) would: the key is
\* absent, every other key is unchanged, and the result is true exactly when
\* the key existed before.
C5_SetNonPositiveTtlDeletes ==
    [][\A p \in Procs :
          (SetReturns(p) /\ ~frame[p].nx /\ NonPositiveTtl(frame[p])) =>
              LET srv == frame'[p].client.server
                  nkey == NKeyOf(frame[p])
              IN  /\ store' = [store EXCEPT ![srv][nkey] = Absent]
                  /\ store'[srv] = delete(store[srv], frame[p].key, frame[p].version).d
                  /\ frame'[p].ret = Return(PyBool(store[srv][nkey] # Absent))]_vars

\* set(k1, v, 0) with xx removed an existing key, returned True and left the
\* other key alone.
C5_Witness ==
    /\ frame[1].op = "set"
    /\ frame[1].pc = "done"
    /\ ~frame[1].nx
    /\ frame[1].xx
    /\ frame[1].timeout # PyNone
    /\ frame[1].timeout.m = 0
    /\ frame[1].ret = Return(PyBool(TRUE))
    /\ store[0][K1] = Absent
    /\ store[0][K2] # Absent

\* ------------------------------------------------------------------ C6
\* C6: set with nx = true and a finite TTL whose millisecond conversion is
\* <= 0 writes nothing: on an existing key it returns False and the key keeps
\* its value and expiration, on an absent key it returns True and the key is
\* still absent.
C6_SetNxNonPositiveTtlProbes ==
    [][\A p \in Procs :
          (SetReturns(p) /\ frame[p].nx /\ NonPositiveTtl(frame[p])) =>
              LET srv == frame'[p].client.server
                  nkey == NKeyOf(frame[p])
              IN  /\ store' = store
                  /\ frame'[p].ret = Return(PyBool(store[srv][nkey] = Absent))]_vars

\* set(k1, v, -5, nx) on a key with a running expiration returned False.
C6_Witness ==
    /\ frame[1].op = "set"
    /\ frame[1].pc = "done"
    /\ frame[1].nx
    /\ frame[1].timeout # PyNone
    /\ frame[1].timeout.m = -5
    /\ frame[1].ret = Return(PyBool(FALSE))
    /\ store[0][K1].exp > 0

\* ------------------------------------------------------------------ C7
\* The command that ends a call of ttl or pttl of caller p.
TtlReturns(p) ==
    /\ frame[p].op \in {"ttl", "pttl"}
    /\ frame[p].pc \in {"ttl_exists", "ttl_query"}
    /\ frame'[p].pc = "done"

\* C7: ttl and pttl return 0 for a key that does not exist when their last
\* command runs (also when it was there for the existence check), None for a
\* key without expiration, and otherwise the duration the store reports
\* (seconds for ttl, milliseconds for pttl); and on a single server
\* set(k, v, ttl=None) stores v without expiration, for which get returns v
\* and ttl returns None.
C7_TtlContract ==
    /\ [][\A p \in Procs :
            TtlReturns(p) =>
                LET d == store[frame'[p].client.server]
                    nkey == NKeyOf(frame[p])
                IN  frame'[p].ret =
                        IF d[nkey] = Absent THEN Return(PyInt(0))
                        ELSE IF d[nkey].exp = -1 THEN Return(PyNone)
                        ELSE IF frame[p].op = "pttl" THEN Return(PyInt(RedisPTTL(d, nkey)))
                        ELSE Return(PyInt(RedisTTL(d, nkey)))]_vars
    /\ [][\A p \in Procs :
            (SetReturns(p) /\ frame[p].timeout = PyNone /\ ~frame[p].nx /\ ~frame[p].xx) =>
                /\ frame'[p].ret = Return(PyBool(TRUE))
                /\ store'[frame'[p].client.server][NKeyOf(frame[p])].exp = -1
                /\ get_result(store'[frame'[p].client.server], NKeyOf(frame[p]))
                      = frame[p].value]_vars
    /\ [][\A p \in Procs :
            (nServers = 1 /\ frame[p].pc = "get_cmd" /\ frame'[p].pc = "done") =>
                \A v \in Values :
                    store[0][NKeyOf(frame[p])] = Entry(v, -1) => frame'[p].ret = Return(v)]_vars

\* pttl found the key with its existence check and no longer with PTTL.
C7_Witness ==
    /\ frame[1].op = "pttl"
    /\ frame[1].pc = "done"
    /\ Len(frame[1].attempts) = 2
    /\ frame[1].ret = Return(PyInt(0))

\* ------------------------------------------------------------------ C9
\* C9: incr with ignore_key_check = false and decr, on a key that does not
\* exist, fail with ValueError and leave the store unchanged; incr with
\* ignore_key_check = true on a key that does not exist creates it with the
\* value delta and returns delta.
C9_IncrMissingKey ==
    [][\A p \in Procs :
          LET srv == frame'[p].client.server
              nkey == NKeyOf(frame[p])
          IN  (frame[p].pc = "incr_eval" /\ frame'[p].pc # "incr_eval"
                 /\ store[srv][nkey] = Absent) =>
                IF frame[p].op = "incr" /\ frame[p].ignore
                THEN /\ frame'[p].ret = Return(PyInt(frame[p].delta))
                     /\ store' = [store EXCEPT ![srv][nkey] =
                                     [val |-> IntToText(frame[p].delta), exp |-> -1]]
                ELSE /\ frame'[p].ret = Raise("ValueError")
                     /\ frame'[p].pc = "done"
                     /\ store' = store]_vars

\* decr of a key that does not exist raised ValueError.
C9_Witness ==
    /\ frame[1].op = "decr"
    /\ frame[1].pc = "done"
    /\ frame[1].ret = Raise("ValueError")
    /\ store[0][K1] = Absent

\* ------------------------------------------------------------------ C8
Supported(v) ==
    \/ v.t \in {"int", "bool"}
    \/ v.t = "str" /\ ~ParseInt(compress(dumps(v))).ok

\* C8: decode(encode(v)) = v for every supported value: integers come back
\* from their decimal text, booleans come back as booleans, and a value
\* whose serialized and compressed bytes are no integer literal comes back
\* as itself, also when the compressor reports it as not compressed.
C8_RoundTrip ==
    (codec.pc = "done" /\ Supported(codec.value)) => codec.out = codec.value

\* A short string the zlib-like compressor left uncompressed came back
\* through the CompressorError branch.
C8_Witness ==
    /\ codec.pc = "done"
    /\ compressor = "zlib"
    /\ codec.value = PyStr(<<"a">>)
    /\ ~decompress(codec.stored).ok
    /\ codec.out = codec.value

\* The documented ambiguity: a string whose bytes are an integer literal.
AmbiguousReached ==
    /\ codec.pc = "done"
    /\ codec.value = PyStr(<<"7">>)
    /\ codec.out = PyInt(7)

\* ------------------------------------------------------------------ C10
\* The callers whose call of one of ops has ended.
Ended(ops) == {p \in Procs : frame[p].op \in ops /\ frame[p].pc = "done"}

RECURSIVE SumDeltas(_)
SumDeltas(S) ==
    IF S = {} THEN 0
    ELSE LET p == CHOOSE q \in S : TRUE
         IN  frame[p].delta + SumDeltas(S \ {p})

Quiescent == \A p \in Procs : frame[p].pc \in {"idle", "done"}

InitialValue == ParseInt(store0[0][K1].val).i

FastPathOnly == \A p \in Procs : ~frame[p].fallback

\* No update is lost, and no key is left behind a delete.
NoLostUpdate ==
    IF Ended({"delete"}) = {}
    THEN store[0][K1] = Entry(PyInt(InitialValue + SumDeltas(Ended({"incr", "decr"}))), -1)
    ELSE store[0][K1] = Absent

\* Every ended incr or decr returned a value or failed with not-found, and
\* without a delete none failed.
IncrOutcomes ==
    \A p \in Ended({"incr", "decr"}) :
       \/ frame[p].ret.kind = "return" /\ frame[p].ret.v.t = "int"
       \/ frame[p].ret = Raise("ValueError") /\ Ended({"delete"}) # {}

\* The script's run is one step: on a key that exists it stores and returns
\* the value plus delta, on a missing key it fails with not-found and creates
\* nothing.
ScriptStep ==
    \A p \in Procs :
       (frame[p].pc = "incr_eval" /\ frame'[p].pc = "done") =>
          LET cur == ParseInt(store[0][K1].val).i
          IN  IF Exists(store[0], K1)
              THEN /\ store'[0][K1] = [store[0][K1] EXCEPT
                                          !.val = IntToText(cur + frame[p].delta)]
                   /\ frame'[p].ret = Return(PyInt(cur + frame[p].delta))
              ELSE /\ store'[0][K1] = Absent
                   /\ frame'[p].ret = Raise("ValueError")

\* C10 (amended): for any interleaving of concurrent incr/decr calls
\* (ignore_key_check false) and deletes on a key holding a natively stored
\* integer, as long as no call's sum leaves the signed 64-bit range (so no
\* call leaves the script for the fallback), each call's existence check and
\* increment are one step; when all calls have ended the stored value is the
\* initial value plus the sum of the deltas if nothing deleted the key, and
\* after a delete the key is absent, each incr having returned a value or
\* failed with not-found.
C10_ScriptAtomic ==
    /\ []((Quiescent /\ FastPathOnly) => (NoLostUpdate /\ IncrOutcomes))
    /\ [][ScriptStep]_vars

\* An incr that ran before the delete and one that failed with not-found
\* after it, no key left behind.
C10_Witness ==
    /\ Quiescent /\ FastPathOnly
    /\ Ended({"delete"}) # {}
    /\ \E p, q \in Ended({"incr", "decr"}) :
          /\ frame[p].ret.kind = "return"
          /\ frame[q].ret = Raise("ValueError")
    /\ store[0][K1] = Absent

\* C10 as stated, for every natively stored integer: when all calls have
\* ended no update is lost and no key is left behind a delete.
C10_Original == Quiescent => NoLostUpdate

\* ------------------------------------------------------------------ C11
\* The pass of set's loop that ends caller p's call of add.
AddReturns(p) == SetReturns(p) /\ frame[p].nx

\* What add does in that pass when it sends SET NX: on an absent key it stores
\* the value and returns True, on a present key it returns False and changes
\* nothing.
AddOutcome(p) ==
    LET srv == frame'[p].client.server
        nkey == NKeyOf(frame[p])
    IN  IF store[srv][nkey] = Absent
        THEN /\ frame'[p].ret = Return(PyBool(TRUE))
             /\ store'[srv][nkey].val = WireBytes(encode(frame[p].value))
             /\ \A k \in NKeys \ {nkey} : store'[srv][k] = store[srv][k]
        ELSE /\ frame'[p].ret = Return(PyBool(FALSE))
             /\ store' = store

\* The callers whose add has ended having sent SET NX: the TTL was absent or
\* at least a millisecond.
Adders == {p \in Procs : /\ frame[p].op = "set" /\ frame[p].nx
                         /\ frame[p].pc = "done"
                         /\ (frame[p].timeout = PyNone \/ frame[p].timeout.m > 0)}

AddWinners == {p \in Adders : frame[p].ret = Return(PyBool(TRUE))}

\* Of the adds of a key that was absent exactly one returned True, and the
\* key holds that caller's value.
OneWinner ==
    (store0[0][K1] = Absent /\ Adders # {}) =>
        /\ Cardinality(AddWinners) = 1
        /\ \A p \in AddWinners :
              store[0][K1].val = WireBytes(encode(frame[p].value))

NKey(k) == <<KeyPrefix, DefaultVersion, k>>

\* Where k first occurs in keys.
FirstAt(keys, k) ==
    CHOOSE i \in 1..Len(keys) : keys[i] = k /\ \A j \in 1..(i - 1) : keys[j] # k

\* The mapping get_many returned for keys on dataset d: the requested keys
\* that exist, once each, with their decoded values, in the order of keys.
GetManyContract(d, keys, r) ==
    /\ {r[i][1] : i \in 1..Len(r)} = {k \in Range(keys) : d[NKey(k)] # Absent}
    /\ \A i, j \in 1..Len(r) : i # j => r[i][1] # r[j][1]
    /\ \A i \in 1..Len(r) :
          /\ r[i][2] = decode(d[NKey(r[i][1])].val)
          /\ r[i][2] # PyNone
    /\ \A i, j \in 1..Len(r) :
          i < j => FirstAt(keys, r[i][1]) < FirstAt(keys, r[j][1])
    /\ keys = <<>> => r = <<>>

\* set_many with a TTL that is absent or at least a millisecond stored every
\* item of data and touched no other key.
SetManyContract(d, dd, data) ==
    /\ \A i \in 1..Len(data) : dd[NKey(data[i][1])].val = WireBytes(encode(data[i][2]))
    /\ \A k \in LKeys :
          (\A i \in 1..Len(data) : data[i][1] # k) => dd[NKey(k)] = d[NKey(k)]

\* C12: on a single server with no concurrent writers, after set_many(data)
\* get_many(keys) returns a mapping of exactly the requested keys that exist
\* in the store, each with its decoded value, in the relative order of the
\* input keys; an absent key is omitted, never mapped to None, and get_many
\* of no keys is empty. What exists is what set_many stored: every item of
\* data, when the TTL is absent or at least a millisecond.
C12_GetManyExact ==
    /\ [][(frame[1].pc = "get_many_cmd" /\ frame'[1].pc = "done") =>
            /\ frame'[1].ret.kind = "return"
            /\ frame'[1].ret.v.t = "dict"
            /\ GetManyContract(store[0], frame[1].keys, frame'[1].ret.v.items)]_vars
    /\ [][(/\ frame[1].pc = "set_many_exec" /\ frame'[1].pc = "done"
           /\ ~NonPositiveTtl(frame[1])) =>
            SetManyContract(store[0], store'[0], frame[1].data)]_vars

\* set_many({k2: 2}) then get_many([k1, k2, k2]) returned k2 -> 2 and
\* omitted k1.
C12_Witness ==
    /\ frame[1].op = "get_many"
    /\ frame[1].pc = "done"
    /\ frame[1].keys = <<"k1", "k2", "k2">>
    /\ store[0][K1] = Absent
    /\ store[0][K2].val = IntToText(2)
    /\ frame[1].ret = Return(PyDict(<<<<"k2", PyInt(2)>>>>))

\* ------------------------------------------------------------------ C13
\* Key nkey is one of the call's prefix and version (f.prefix, f.version).
SameNamespace(f, nkey) == nkey[1] = OwnPrefix(f) /\ nkey[2] = OwnVersion(f)

\* The keys the call is about: of its prefix and version, the logical key
\* matching the caller's pattern.
Targets(f, d) ==
    {k \in DOMAIN d : /\ Exists(d, k) /\ SameNamespace(f, k)
                      /\ GlobMatch(f.search.k, k[3])}

\* C13: with no concurrent writers, delete_pattern(pattern) removes exactly
\* the keys of the current prefix and version whose logical key matches the
\* pattern, leaves every other key unchanged, and returns the number of keys
\* it removed.
C13_DeletePatternExact ==
    \A p \in Procs :
       (frame[p].op = "delete_pattern" /\ frame[p].pc = "done") =>
          LET f == frame[p]
              before == store0[0]
              after == store[0]
          IN  /\ \A k \in DOMAIN before :
                    after[k] = IF k \in Targets(f, before) THEN Absent ELSE before[k]
              /\ f.ret = Return(PyInt(Cardinality(
                    {k \in DOMAIN before : Exists(before, k) /\ ~Exists(after, k)})))

\* ------------------------------------------------------------------ C14
\* C14: for every prefix and version, the pattern make_pattern builds matches
\* a stored key only if the key was composed with the same literal prefix and
\* version and its logical key matches the caller's pattern: keys, iter_keys
\* and delete_pattern get no key of another prefix or version from the store,
\* and delete_pattern deletes none.
C14_PatternIsolation ==
    \A p \in Procs :
       frame[p].op \in {"delete_pattern", "iter_keys", "keys"} =>
          /\ \A k \in frame[p].batch :
                SameNamespace(frame[p], k) /\ GlobMatch(frame[p].search.k, k[3])
          /\ \A k \in DOMAIN store[0] :
                ~SameNamespace(frame[p], k) => store[0][k] = store0[0][k]

\* ------------------------------------------------------------------ C20
\* C20: when delete_pattern runs concurrently with other clients that delete
\* matching keys, the count it returns is the number of keys its own DEL
\* commands removed: a key another client removed first is not counted.
C20_CountsOwnRemovals ==
    \A p \in Procs :
       (frame[p].op = "delete_pattern" /\ frame[p].pc = "done") =>
          frame[p].ret = Return(PyInt(frame[p].removed))

\* ------------------------------------------------------------------ C15
\* C15: a read (get, get_many, has_key, keys, ttl, pttl) whose command fails
\* with a transport-class error ends at once with ConnectionInterrupted: it
\* sends nothing more, on this or another server.
C15_ReadsRaiseOnce ==
    [][\A p \in Procs :
          (frame[p].pc \in ReadPcs /\ frame'[p].failures = frame[p].failures + 1) =>
              /\ frame'[p].pc = "done"
              /\ frame'[p].ret = Raise("ConnectionInterrupted")
              /\ frame'[p].attempts = Append(frame[p].attempts,
                                             frame'[p].client.server)]_vars

\* ------------------------------------------------------------------ C16
\* The calls of set that gave a finite TTL whose milliseconds are positive and
\* that returned from the conditional SET.
SetWithExpiry(p) ==
    /\ frame[p].op = "set"
    /\ frame[p].pc = "done"
    /\ frame[p].ret.kind = "return"
    /\ frame[p].resolved # PyNone
    /\ set_millis(frame[p].resolved).m > 0

\* C16: a set with a finite positive TTL that succeeds sent PX =
\* int(ttl * 1000) of the resolved TTL, however many attempts failed before.
C16_ExpiryOfResolvedTtl ==
    \A p \in Procs :
       SetWithExpiry(p) => frame[p].timeout = set_millis(frame[p].resolved)

\* ------------------------------------------------------------------ C17
\* An attempt of set by p fails now, with no client supplied, replicas
\* writable, and an index left that neither an earlier attempt nor this one
\* tried.
SetFailsRetryable(p) ==
    /\ frame[p].op = "set"
    /\ frame[p].pc = "set_loop"
    /\ frame'[p].failures = frame[p].failures + 1
    /\ frame[p].given = NoClient
    /\ ~replica_read_only
    /\ (0..(nServers - 1)) \ (Range(frame[p].tried) \cup {frame'[p].index}) # {}

\* C17: such a failure records the failed index and goes round the loop again
\* instead of raising, on the conditional-set path and on the TTL <= 0 path.
C17_RetryOnEveryPath ==
    [][\A p \in Procs :
          SetFailsRetryable(p) =>
              /\ frame'[p].pc = "set_loop"
              /\ frame'[p].tried = Append(frame[p].tried, frame'[p].index)]_vars

\* ------------------------------------------------------------------ C18
\* The entry of the key p's fallback works on, in a dataset per server.
FbEntry(st, p) == st[frame[p].client.server][frame[p].key.k]

\* p's fallback sends its SET now, the key being there.
FbWrites(p) ==
    /\ frame[p].pc = "fb_set"
    /\ frame'[p].pc = "done"
    /\ FbEntry(store, p) # Absent

\* The fallback returned old + delta and left the key holding it, with the
\* expiration it had to within a second.
FbKept(p) ==
    LET before == FbEntry(store, p)
        after == FbEntry(store', p)
        sum == incr_sum(decode(before.val), frame[p].delta)
    IN  /\ sum.ok
        /\ frame'[p].ret = Return(sum.v)
        /\ after # Absent
        /\ after.val = WireBytes(encode(sum.v))
        /\ (before.exp = -1) = (after.exp = -1)
        /\ after.exp - before.exp < MsPerSec
        /\ before.exp - after.exp < MsPerSec

\* C18: with no other writer, the fallback of incr/decr returns old + delta,
\* leaves the key holding old + delta with the expiration it had (none, or
\* the same to the second), and never removes the key.
C18_FallbackKeepsKey ==
    [][\A p \in Procs : FbWrites(p) => FbKept(p)]_vars

\* ------------------------------------------------------------------ C19
\* p's fallback reads the TTL now (EXISTS, or the TTL command after it) and
\* the key is not there.
FbFindsNoKey(p) ==
    /\ frame[p].pc \in {"fb_exists", "fb_ttl"}
    /\ frame'[p] # frame[p]
    /\ FbEntry(store, p) = Absent

\* C19: a fallback of incr/decr that finds the key absent or expired when it
\* reads the TTL fails with ValueError and writes nothing.
C19_FallbackNotFound ==
    [][\A p \in Procs :
          FbFindsNoKey(p) =>
              /\ frame'[p].pc = "done"
              /\ frame'[p].ret = Raise("ValueError")
              /\ store' = store]_vars

\* ------------------------------------------------------------------ C23
\* An attempt of set by p fails now on the handle of a connection slot.
SetFailsOnSlot(p) ==
    /\ frame[p].op = "set"
    /\ frame[p].pc = "set_loop"
    /\ frame'[p].failures = frame[p].failures + 1
    /\ frame[p].given = NoClient

\* C23: a transport-class failure of set on index i tears the slot of i down:
\* the slot is unconnected afterwards, so the next operation on i connects
\* afresh.
C23_FailureTearsDown ==
    [][\A p \in Procs :
          SetFailsOnSlot(p) => clients'[frame'[p].index] = NoClient]_vars

\* ------------------------------------------------------------------ C21
\* Steps of the connection lifecycle, as seen from the state they start in.
Connects(p) == frame[p].pc = "gc_connect" /\ frame'[p].pc = "gc_store"

HandsOut(p) == frame[p].pc = "gc_return" /\ frame'[p].pc = "done"

Closes ==
    \E p \in Procs :
       /\ CanCall(p)
       /\ frame'[p].op = "do_close_clients"
       /\ frame'[p] # frame[p]

OneSlotPerServer == DOMAIN clients = 0..(nServers - 1)

ConnectsOnlyEmptySlot ==
    \A p \in Procs : Connects(p) => clients[frame[p].index] = NoClient

SlotKeepsHandle ==
    \A i \in DOMAIN clients :
       (clients[i] # NoClient /\ ~Closes) => clients'[i] = clients[i]

HandsOutSlot ==
    \A p \in Procs :
       HandsOut(p) =>
          /\ clients[frame[p].index] \in factory.made
          /\ clients[frame[p].index].server = frame[p].index
          /\ frame'[p].ret = Return(clients[frame[p].index])
          /\ factory' = factory

CloseReleasesAll ==
    Closes =>
       /\ \A i \in DOMAIN clients' : clients'[i] = NoClient
       /\ \A i \in DOMAIN clients :
             clients[i] # NoClient => clients[i] \in factory'.released

\* C21: in a sequential run the slot array has one slot per server; connect
\* runs only for an unconnected slot; a connected slot keeps its handle, and
\* get_client returns it without connecting, until do_close_clients; after
\* do_close_clients every slot is unconnected and every handle that was in a
\* slot has been given to the factory's disconnect.
C21_SlotsCacheHandles ==
    /\ []OneSlotPerServer
    /\ [][ConnectsOnlyEmptySlot]_vars
    /\ [][SlotKeepsHandle]_vars
    /\ [][HandsOutSlot]_vars
    /\ [][CloseReleasesAll]_vars

\* A handle was released by do_close_clients, and a later get_client returned
\* the handle of a new connection, cached since.
C21_Witness ==
    /\ factory.released # {}
    /\ frame[1].op = "get_client"
    /\ frame[1].pc = "done"
    /\ frame[1].ret.v \notin factory.released
    /\ \E i \in DOMAIN clients : clients[i] = frame[1].ret.v

\* ------------------------------------------------------------------ C22
\* Both racers made their first use of a server index and have their handle.
RaceOver == \A p \in Racers : frame[p].op = "get_client" /\ frame[p].pc = "done"

\* C22: after a race of two first uses the slot holds one handle, each caller
\* got a handle made for its index, and a handle that is not in a slot was
\* released through the factory.
C22_LoserDiscarded ==
    RaceOver =>
       /\ \A p \in Racers :
             /\ frame[p].ret.v \in factory.made
             /\ frame[p].ret.v.server = frame[p].index
             /\ clients[frame[p].index] \in factory.made
       /\ \A h \in factory.made :
             (\E i \in DOMAIN clients : clients[i] = h) \/ h \in factory.released

\* ------------------------------------------------------------------ C24
\* The key the call of incr_version by caller 1 names, under a version.
VKey(version) == key_func(frame[1].key.k, KeyPrefix, version)

\* Two lives agree to the second, and none is none.
SameLife(a, b) ==
    /\ (a = -1) = (b = -1)
    /\ a - b < MsPerSec
    /\ b - a < MsPerSec

\* C24: incr_version on an existing key returns version + delta and leaves the
\* old value under the new version with the expiration it had (to the second
\* the TTL reply carries), nothing under the old version when delta # 0, and
\* the value is never lost; on a missing key it raises ValueError and changes
\* nothing.
C24_IncrVersionMoves ==
    (frame[1].op = "incr_version" /\ frame[1].pc = "done") =>
       LET version == frame[1].version
           target == version + frame[1].delta
           old == store0[0][VKey(version)]
           new == store[0][VKey(target)]
       IN  IF old = Absent
           THEN frame[1].ret = Raise("ValueError") /\ store = store0
           ELSE /\ frame[1].ret = Return(PyInt(target))
                /\ new # Absent
                /\ decode(new.val) = decode(old.val)
                /\ SameLife(new.exp, old.exp)
                /\ (frame[1].delta # 0 => store[0][VKey(version)] = Absent)

\* ------------------------------------------------------------------ C25
\* The values a reply's elements were pushed as.
Pushed(elems) == [i \in 1..Len(elems) |-> elems[i].app]

\* What caller p's list command has to return, the list being lst.
ListExpected(f, lst) ==
    IF f.op = "list_range"
    THEN PyList(Pushed(RedisLRANGE([k \in {K1} |-> lst], K1, f.start, f.stop)))
    ELSE IF f.op = "list_index"
    THEN RedisLINDEX([k \in {K1} |-> lst], K1, f.at).e.app
    ELSE IF f.desc THEN lst[Len(lst)].app
    ELSE lst[1].app

\* C25: after list_push, list_range, list_index and list_pop return the
\* values as they were pushed, integers and others alike, from the key
\* make_key composes; list_push writes to that key only.
C25_ListsDecode ==
    [][\A p \in Procs :
          (frame[p].pc = "list_cmd" /\ frame'[p].pc = "done") =>
             LET f == frame[p]
                 lst == store[0][K1]
             IN  /\ make_key(f.key, f.version).k = K1
                 /\ \A k \in NKeys \ {K1} : store'[0][k] = store[0][k]
                 /\ (f.op = "list_push" => Len(store'[0][K1]) = Len(lst) + Len(f.values))
                 /\ (f.op # "list_push" /\ lst # <<>>) =>
                       frame'[p].ret = Return(ListExpected(f, lst))]_vars

====
